---- MODULE Spec2Model ----
(***************************************************************************)
(* Model of the poi-sdk Python client: the 402 payment-retry orchestration *)
(* of PoiClient.request (client.py), the budget tracker and its in-memory  *)
(* store (budget.py), the in-memory invoice cache (invoice_cache.py) and   *)
(* the Flux wire helpers (transport_flux.py).                              *)
(*                                                                         *)
(* request() is a coroutine.  With the in-memory cache and store every     *)
(* `await` on them completes without yielding to the event loop, so the    *)
(* coroutine is suspended only in the two transport round-trips and in     *)
(* payer.pay.  Each action below is one run of the coroutine from one      *)
(* suspension point to the next.                                           *)
(***************************************************************************)
EXTENDS Integers, Sequences, FiniteSets, TLC

\* ------------------------------------------------------------------ bounds
NumCalls == 2
MaxAmount == 2
MaxDay == 1
MaxSpent == 3
MaxNegative == 1
MaxCacheOps == 3
TickHours == 6

\* --------------------------------------------------------------- constants
HoursPerDay == 24
PaymentRequired == 402

\* Python's None where a str, and where a decimal string (a sequence of
\* characters), is optional.
None == "<None>"
NoneDec == <<"<None>">>

\* ------------------------------------------------------- strings and ints
\* A Python str is modelled as a sequence of one-character strings.
DigitChars == <<"0", "1", "2", "3", "4", "5", "6", "7", "8", "9">>

RECURSIVE StrNat(_)
StrNat(n) ==
    IF n < 10 THEN <<DigitChars[n + 1]>>
    ELSE StrNat(n \div 10) \o <<DigitChars[(n % 10) + 1]>>

\* str(n) of a Python int.
Str(n) == IF n < 0 THEN <<"-">> \o StrNat(-n) ELSE StrNat(n)

DigitValue(ch) == (CHOOSE i \in 1..10 : DigitChars[i] = ch) - 1

RECURSIVE IntNat(_)
IntNat(s) ==
    IF Len(s) = 1 THEN DigitValue(s[1])
    ELSE 10 * IntNat(SubSeq(s, 1, Len(s) - 1)) + DigitValue(s[Len(s)])

\* int(s) of a decimal string.
Int_(s) == IF Head(s) = "-" THEN -IntNat(Tail(s)) ELSE IntNat(s)

\* Python truthiness of an Optional[str]: None and "" are falsy.
Truthy(s) == s # None /\ s # ""
TruthyDec(s) == s # NoneDec /\ s # <<>>

\* dict assignment d[k] = v and dict.pop(k, None), a dict being a function
\* whose domain is its set of keys.
DictSet(d, k, v) == [x \in (DOMAIN d) \cup {k} |-> IF x = k THEN v ELSE d[x]]
DictPop(d, k) == [x \in (DOMAIN d) \ {k} |-> d[x]]
DictGet(d, k, default) == IF k \in DOMAIN d THEN d[k] ELSE default
EmptyDict == [x \in {} |-> None]

\* ------------------------------------------------------------- budget.py
\* The clock is [day, hour]: a calendar date (numbered) and the UTC hour.
\* strftime("%Y-%m-%d") is injective on dates, so a day key is the date.

\* MemoryBudgetStore._get_today
GetToday(clock) == clock.day

\* BudgetTracker._get_day_key
GetDayKey(config, clock) ==
    IF clock.hour < config.daily_reset_hour THEN clock.day - 1 ELSE clock.day

\* key = f"{chain}:{asset}:{day}".  chain and asset are sequences of
\* colon-free segments, so the joined key is the concatenation of their
\* segments followed by the day (which holds no colon).
SpentKey(chain, asset, day) == <<chain \o asset, day>>

\* MemoryBudgetStore.get_spent
GetSpent(ledger, chain, asset, day) == DictGet(ledger, SpentKey(chain, asset, day), 0)

\* MemoryBudgetStore.record_spend
StoreRecordSpend(ledger, clock, chain, asset, amount) ==
    LET key == SpentKey(chain, asset, GetToday(clock))
    IN  DictSet(ledger, key, DictGet(ledger, key, 0) + amount)

\* MemoryBudgetStore.reset
StoreReset(ledger, clock, chain, asset) ==
    DictPop(ledger, SpentKey(chain, asset, GetToday(clock)))

\* The per-request rule with >= for >.
PerRequestExceeded_Strict(config, amount) ==
    /\ TruthyDec(config.max_per_request)
    /\ amount >= Int_(config.max_per_request)

\* BudgetTracker.check_budget, the per-request rule.
PerRequestExceeded(config, amount) ==
    /\ TruthyDec(config.max_per_request)
    /\ amount > Int_(config.max_per_request)

\* The daily rule with >= for >.
PerDayExceeded_Strict(config, ledger, clock, chain, asset, amount) ==
    /\ TruthyDec(config.max_per_day)
    /\ GetSpent(ledger, chain, asset, GetDayKey(config, clock)) + amount
          >= Int_(config.max_per_day)

\* BudgetTracker.check_budget, the daily rule.
PerDayExceeded(config, ledger, clock, chain, asset, amount) ==
    /\ TruthyDec(config.max_per_day)
    /\ GetSpent(ledger, chain, asset, GetDayKey(config, clock)) + amount
          > Int_(config.max_per_day)

\* BudgetTracker.check_budget: "ok" when it returns, else which rule raised
\* BudgetExceededError.
CheckBudget(config, ledger, clock, chain, asset, amount) ==
    IF PerRequestExceeded(config, amount) THEN "per_request"
    ELSE IF PerDayExceeded(config, ledger, clock, chain, asset, amount) THEN "per_day"
    ELSE "ok"

\* BudgetTracker.record_spend
TrackerRecordSpend(ledger, clock, chain, asset, amount) ==
    StoreRecordSpend(ledger, clock, chain, asset, amount)

Max(a, b) == IF a >= b THEN a ELSE b

\* An Optional[int]: None is the empty sequence, an int n is <<n>>.
NoneInt == <<>>
SomeInt(n) == <<n>>

\* get_remaining_budget without the floor at zero.
GetRemainingBudget_Unclamped(config, ledger, clock, chain, asset) ==
    IF ~TruthyDec(config.max_per_day) THEN NoneInt
    ELSE SomeInt(Int_(config.max_per_day)
                    - GetSpent(ledger, chain, asset, GetDayKey(config, clock)))

\* BudgetTracker.get_remaining_budget
GetRemainingBudget(config, ledger, clock, chain, asset) ==
    IF ~TruthyDec(config.max_per_day) THEN NoneInt
    ELSE SomeInt(Max(0, Int_(config.max_per_day)
                          - GetSpent(ledger, chain, asset, GetDayKey(config, clock))))

\* PoiClient.get_remaining_budget
ClientGetRemainingBudget(config, ledger, clock, chain, asset) ==
    IF ~config.configured THEN NoneInt
    ELSE GetRemainingBudget(config, ledger, clock, chain, asset)

\* ------------------------------------------------------ invoice_cache.py
\* A PaymentProof, and the None of an Optional[PaymentProof].
PaymentProof(kind, tx_hash, cbor_hex) ==
    [kind |-> kind, tx_hash |-> tx_hash, cbor_hex |-> cbor_hex]
NoProof == PaymentProof(None, None, None)

\* MemoryInvoiceCache.get_paid
GetPaid(by_inv, invoice_id) == DictGet(by_inv, invoice_id, NoProof)

\* MemoryInvoiceCache.get_by_idempotency_key
GetByIdempotencyKey(by_k, key) == DictGet(by_k, key, NoProof)

\* set_paid that stores only under a non-empty invoice id.
SetPaid_Invoice_SkipsEmptyId(by_inv, invoice_id, proof) ==
    IF Truthy(invoice_id) THEN DictSet(by_inv, invoice_id, proof) ELSE by_inv

\* set_paid that keeps the proof an invoice id already has.
SetPaid_Invoice_KeepsFirst(by_inv, invoice_id, proof) ==
    IF invoice_id \in DOMAIN by_inv THEN by_inv ELSE DictSet(by_inv, invoice_id, proof)

\* MemoryInvoiceCache.set_paid: the invoice index after the call.
SetPaid_Invoice(by_inv, invoice_id, proof) == DictSet(by_inv, invoice_id, proof)

\* set_paid that never indexes by idempotency key.
SetPaid_Key_Dropped(by_k, proof, idempotency_key) == by_k

\* set_paid that indexes every key other than None, the empty one included.
SetPaid_Key_IfNotNone(by_k, proof, idempotency_key) ==
    IF idempotency_key # None THEN DictSet(by_k, idempotency_key, proof) ELSE by_k

\* MemoryInvoiceCache.set_paid: the idempotency-key index after the call.
SetPaid_Key(by_k, proof, idempotency_key) ==
    IF Truthy(idempotency_key) THEN DictSet(by_k, idempotency_key, proof) ELSE by_k

\* ------------------------------------------------------ transport_flux.py
\* CHAIN_MAPPING, wire chain name -> CAIP-2 id as colon-free segments.
CHAIN_MAPPING ==
    [x \in {"cardano-mainnet", "cardano-preprod", "base-mainnet", "base-sepolia"} |->
        CASE x = "cardano-mainnet" -> <<"cardano", "mainnet">>
          [] x = "cardano-preprod" -> <<"cardano", "preprod">>
          [] x = "base-mainnet" -> <<"eip155", "8453">>
          [] x = "base-sepolia" -> <<"eip155", "84532">>]

\* "application/json" in content_type, over the content types the server
\* is modelled to send.
ContentTypes == {"application/json", "text/html"}
ContainsApplicationJson(content_type) ==
    content_type \in {"application/json", "application/json; charset=utf-8"} \cap ContentTypes

\* is_flux_402 without the test for the x402 PAYMENT-REQUIRED header.
IsFlux402_NoX402Test(response) ==
    /\ response.status_code = PaymentRequired
    /\ ContainsApplicationJson(response.content_type)

\* is_flux_402
IsFlux402(response) ==
    IF response.status_code # PaymentRequired THEN FALSE
    ELSE IF ~ContainsApplicationJson(response.content_type) THEN FALSE
    ELSE IF response.payment_required THEN FALSE
    ELSE TRUE

\* A chain str as its colon-separated segments, for the wire names that
\* contain a colon.
Segments(name) ==
    CASE name = "unknown:chain" -> <<"unknown", "chain">>
      [] name = "cardano:mainnet" -> <<"cardano", "mainnet">>
      [] OTHER -> <<name>>

\* invoice_id or ""
OrEmpty(s) == IF Truthy(s) THEN s ELSE ""

\* apply_payment_headers sending the transaction hash whatever the kind.
PaymentHeaderValue_AlwaysTxHash(proof) == OrEmpty(proof.tx_hash)

\* apply_payment_headers: the X-Payment value for a proof (None: not set).
PaymentHeaderValue(proof) ==
    IF proof.kind = "cardano-txhash" THEN OrEmpty(proof.tx_hash)
    ELSE IF proof.kind = "cardano-signed-cbor" THEN OrEmpty(proof.cbor_hex)
    ELSE IF proof.kind = "evm-txhash" THEN OrEmpty(proof.tx_hash)
    ELSE None

\* apply_payment_headers as request() calls it (wallet_address, chain and
\* idempotency_key are left at their default None).  headers is a record of
\* the protocol's header values, None for a header that is not set.
ApplyPaymentHeaders(headers, invoice_id, proof, partner) ==
    [headers EXCEPT
        !.invoice_id = invoice_id,
        !.payment = IF PaymentHeaderValue(proof) # None THEN PaymentHeaderValue(proof)
                    ELSE @,
        !.partner = IF Truthy(partner) THEN partner ELSE @]

\* ---------------------------------------------------------------- state
VARIABLES
    budget,           \* PoiClient(budget=...): the BudgetConfig, or not configured
    now,              \* the UTC clock, [day, hour]
    by_invoice,       \* MemoryInvoiceCache._by_invoice
    by_key,           \* MemoryInvoiceCache._by_key
    spent,            \* MemoryBudgetStore._spent
    pc,               \* per call: where the coroutine is suspended
    idempotency_key,  \* per call: local idempotency_key
    response,         \* per call: the last response the call received
    payment_request,  \* per call: local payment_request
    inflight,         \* per call: headers of the transport request awaited
    outcome,          \* per call: what the call returned or raised
    trace,            \* per call: the operations the call has performed, in order
    pay_log,          \* per call: the requests payer.pay was invoked with
    last_check        \* the last direct check_budget call and how it ended

shared == <<by_invoice, by_key, spent>>
vars == <<budget, now, by_invoice, by_key, spent, pc, idempotency_key, response,
          payment_request, inflight, outcome, trace, pay_log, last_check>>
calls == <<pc, idempotency_key, response, payment_request, inflight, outcome, trace,
           pay_log>>

Calls == 1..NumCalls

\* ------------------------------------- transport_flux.py, the parser
\* A JSON value of the invoice's expiresAt field: null (also what
\* data.get returns for a missing key), a string, or a number.
JsonNull == [json |-> "null"]
JsonString(text) == [json |-> "string", text |-> text]
JsonNumber(n) == [json |-> "number", n |-> n]

\* `not expires_at`
JsonFalsy(v) ==
    \/ v.json = "null"
    \/ v.json = "string" /\ v.text = ""
    \/ v.json = "number" /\ v.n = 0

\* datetime.fromisoformat(text.replace("Z", "+00:00")) for the ISO 8601
\* texts modelled, as a clock reading; any other text raises ValueError.
IsoInstants ==
    [text \in {"1970-01-02T01:00:00Z", "1970-01-02T03:00:00Z", "1970-01-02T09:00:00Z"} |->
        CASE text = "1970-01-02T01:00:00Z" -> [day |-> 1, hour |-> 1]
          [] text = "1970-01-02T03:00:00Z" -> [day |-> 1, hour |-> 3]
          [] text = "1970-01-02T09:00:00Z" -> [day |-> 1, hour |-> 9]]

\* int((expires - now).total_seconds())
SecondsPerHour == 3600
TotalSeconds(expires, clock) ==
    ((expires.day * HoursPerDay + expires.hour) - (clock.day * HoursPerDay + clock.hour))
        * SecondsPerHour

\* _calculate_timeout raises: expires_at.replace on a truthy value that is
\* not a str is an AttributeError, which the except clause does not name.
CalculateTimeoutRaises(expires_at) ==
    ~JsonFalsy(expires_at) /\ expires_at.json # "string"

\* _calculate_timeout, where it returns.
CalculateTimeout(expires_at, clock) ==
    IF JsonFalsy(expires_at) THEN NoneInt
    ELSE IF expires_at.text \in DOMAIN IsoInstants
    THEN SomeInt(Max(0, TotalSeconds(IsoInstants[expires_at.text], clock)))
    ELSE NoneInt

\* Optional[SplitConfig]
NoSplits == <<>>
SplitOutput(to, amount_units, role, asset) ==
    [to |-> to, amount_units |-> amount_units, role |-> role, asset |-> asset]
SplitConfig(mode, outputs) == <<[mode |-> mode, outputs |-> outputs]>>

\* One wire split entry as a SplitOutput.
ParseSplitOutput(s) ==
    SplitOutput(s["to"], Str(s["amount"]), DictGet(s, "role", None),
                DictGet(s, "currency", None))

\* parse_flux_invoice that keeps only the first wire split entry.
ParseSplits_FirstOnly(data) ==
    IF "splits" \in DOMAIN data /\ data["splits"] # <<>>
    THEN SplitConfig(DictGet(data, "splitMode", "additional"),
                     <<ParseSplitOutput(data["splits"][1])>>)
    ELSE NoSplits

\* parse_flux_invoice, the splits.
ParseSplits(data) ==
    IF "splits" \in DOMAIN data /\ data["splits"] # <<>>
    THEN SplitConfig(DictGet(data, "splitMode", "additional"),
                     [i \in 1..Len(data["splits"]) |-> ParseSplitOutput(data["splits"][i])])
    ELSE NoSplits

\* parse_flux_invoice raises.
ParseFluxInvoiceRaises(data) == CalculateTimeoutRaises(DictGet(data, "expiresAt", JsonNull))

\* parse_flux_invoice that maps a name the table lacks to the empty chain.
ParseFluxInvoice_DropsUnknown(data) ==
    LET chain == DictGet(data, "chain", "")
    IN  [protocol |-> "flux",
         invoice_id |-> DictGet(data, "invoiceId", None),
         chain |-> IF chain \in DOMAIN CHAIN_MAPPING THEN CHAIN_MAPPING[chain]
                   ELSE <<"">>,
         asset |-> <<DictGet(data, "currency", "ADA")>>,
         amount_units |-> IF "amount" \in DOMAIN data THEN Str(data["amount"])
                          ELSE <<"0">>,
         timeout_seconds |-> CalculateTimeout(DictGet(data, "expiresAt", JsonNull), now),
         splits |-> ParseSplits(data)]

\* parse_flux_invoice, where it returns: the fields the orchestration and
\* the payer read.  data is the invoice dict, a function on the keys it holds.
ParseFluxInvoice(data) ==
    LET chain == DictGet(data, "chain", "")
    IN  [protocol |-> "flux",
         invoice_id |-> DictGet(data, "invoiceId", None),
         chain |-> IF chain \in DOMAIN CHAIN_MAPPING THEN CHAIN_MAPPING[chain]
                   ELSE Segments(chain),
         asset |-> <<DictGet(data, "currency", "ADA")>>,
         amount_units |-> IF "amount" \in DOMAIN data THEN Str(data["amount"])
                          ELSE <<"0">>,
         timeout_seconds |-> CalculateTimeout(DictGet(data, "expiresAt", JsonNull), now),
         splits |-> ParseSplits(data)]

\* ------------------------------------------------------------ environment
\* The (method, url, body) triples callers use.
\* A body is a dict in insertion order, a sequence of <<key, value>> items.
BaseUrl == "https://api.example.com"
Request(method, endpoint, body) == [method |-> method, endpoint |-> endpoint, body |-> body]
Requests ==
    { Request("POST", "/v1/a", <<>>),
      Request("POST", "/v1/b", << <<"model", "m">>, <<"prompt", "p">> >>),
      Request("POST", "/v1/b", << <<"prompt", "p">>, <<"model", "m">> >>) }

\* The invoices the server issues (the JSON body of a Flux 402), for a small
\* and a large amount, with and without an identifier.
InvoiceIds == {"inv1", "inv2"}
InvoiceAmounts == {1, MaxAmount}
WireInvoices ==
    { [k \in {"invoiceId", "amount", "chain", "currency"} |->
          CASE k = "invoiceId" -> id
            [] k = "amount" -> a
            [] k = "chain" -> "cardano-mainnet"
            [] k = "currency" -> "ADA"] : id \in InvoiceIds, a \in InvoiceAmounts }
      \cup
    { [k \in {"amount", "chain"} |->
          CASE k = "amount" -> a
            [] k = "chain" -> "cardano-mainnet"] : a \in InvoiceAmounts }

FirstInvoice == CHOOSE d \in WireInvoices : "invoiceId" \in DOMAIN d /\ d["amount"] = 1 /\ d["invoiceId"] = "inv1"
NoData == [k \in {} |-> None]
NoResponse ==
    [status_code |-> 0, content_type |-> "", payment_required |-> FALSE, data |-> NoData]

\* What the server may answer: a 200, a 500, and every kind of 402 (a Flux
\* 402 carries an invoice).
Response(status_code, content_type, payment_required, data) ==
    [status_code |-> status_code, content_type |-> content_type,
     payment_required |-> payment_required, data |-> data]
PlainResponses == {Response(st, "application/json", FALSE, NoData) : st \in {200, 500}}
Responses402 ==
    {Response(PaymentRequired, ct, h, d) :
        ct \in ContentTypes, h \in BOOLEAN, d \in WireInvoices}
Responses ==
    PlainResponses
      \cup {r \in Responses402 : r.content_type = "application/json" /\ ~r.payment_required}
      \cup {Response(r.status_code, r.content_type, r.payment_required, NoData) :
               r \in {q \in Responses402 : q.content_type # "application/json"
                                               \/ q.payment_required}}
\* What the server may answer to the paid retry: a 200, a 500, or a Flux
\* 402 once more.
RetryResponses ==
    PlainResponses \cup {Response(PaymentRequired, "application/json", FALSE, FirstInvoice)}

\* The budget configurations a client is constructed with.
NoBudget ==
    [configured |-> FALSE, max_per_request |-> NoneDec, max_per_day |-> NoneDec,
     daily_reset_hour |-> 0]
BudgetConfig(max_per_request, max_per_day, daily_reset_hour) ==
    [configured |-> TRUE, max_per_request |-> max_per_request,
     max_per_day |-> max_per_day, daily_reset_hour |-> daily_reset_hour]
BudgetConfigs ==
    { BudgetConfig(Str(1), NoneDec, 0),
      BudgetConfig(NoneDec, Str(MaxAmount), 0),
      BudgetConfig(NoneDec, Str(MaxAmount), 6),
      BudgetConfig(Str(1), Str(MaxAmount), 0) }
\* The instant the modelled calls run at: before 06:00 UTC.
StartClock == [day |-> 1, hour |-> 3]

ClientPartner == None

NoHeaders == [idempotency_key |-> None, invoice_id |-> None, payment |-> None,
              partner |-> None]
NoPaymentRequest ==
    [protocol |-> None, invoice_id |-> None, chain |-> <<>>, asset |-> <<>>,
     amount_units |-> <<>>, timeout_seconds |-> NoneInt, splits |-> NoSplits]
NoOutcome == [kind |-> "pending", value |-> NoResponse]

\* json.dumps(..., sort_keys=True) writes a dict's items in key order.
SortedKeys == <<"model", "prompt">>
JsonDumpsBody_Unsorted(body) == body

RECURSIVE ItemsInOrder(_, _)
ItemsInOrder(body, keys) ==
    IF keys = <<>> THEN <<>>
    ELSE SelectSeq(body, LAMBDA item : item[1] = Head(keys))
            \o ItemsInOrder(body, Tail(keys))
JsonDumpsBody(body) == ItemsInOrder(body, SortedKeys)

\* json.dumps({"method": method, "url": url, "body": body}, sort_keys=True)
JsonDumps(method, url, body) ==
    <<"body", JsonDumpsBody(body), "method", method, "url", url>>

\* hashlib.sha256(data.encode()).hexdigest()[:32], a fixed table over the
\* texts the modelled triples serialize to.
Sha256Hex32(data) ==
    CASE data = JsonDumps("POST", <<BaseUrl, "/v1/a">>, <<>>) -> "3f1a"
      [] data = JsonDumps("POST", <<BaseUrl, "/v1/b">>,
                          << <<"model", "m">>, <<"prompt", "p">> >>) -> "9c4e"
      [] OTHER -> "d07b"

\* PoiClient._generate_idempotency_key: sha256 of the JSON of the triple,
\* cut to 32 hex characters.
GenerateIdempotencyKey(request) ==
    Sha256Hex32(JsonDumps(request.method, <<BaseUrl, request.endpoint>>, request.body))

\* The transaction hash of the payment the payer makes for a call.
TxHashes == <<"tx1", "tx2", "tx3", "tx4">>

NoCheck == [chain |-> <<>>, asset |-> <<>>, amount |-> 0, result |-> "none"]

\* ----------------------------------------------------------------- Init
Init ==
    /\ budget \in {NoBudget} \cup BudgetConfigs
    /\ now = StartClock
    /\ by_invoice = EmptyDict
    /\ by_key = EmptyDict
    /\ spent = EmptyDict
    /\ pc = [c \in Calls |-> "idle"]
    /\ idempotency_key = [c \in Calls |-> None]
    /\ response = [c \in Calls |-> NoResponse]
    /\ payment_request = [c \in Calls |-> NoPaymentRequest]
    /\ inflight = [c \in Calls |-> NoHeaders]
    /\ outcome = [c \in Calls |-> NoOutcome]
    /\ trace = [c \in Calls |-> <<>>]
    /\ pay_log = [c \in Calls |-> <<>>]
    /\ last_check = NoCheck

\* ------------------------------------------------------ PoiClient.request
\* The call ends: its locals go out of scope.
Finish(c, state, kind, value) ==
    /\ pc' = [pc EXCEPT ![c] = state]
    /\ outcome' = [outcome EXCEPT ![c] = [kind |-> kind, value |-> value]]
    /\ response' = [response EXCEPT ![c] = value]
    /\ idempotency_key' = [idempotency_key EXCEPT ![c] = None]
    /\ payment_request' = [payment_request EXCEPT ![c] = NoPaymentRequest]
    /\ inflight' = [inflight EXCEPT ![c] = NoHeaders]

\* response.raise_for_status(); return response.json()
RaiseForStatusOrReturn(c, resp) ==
    IF resp.status_code \in 200..299
    THEN Finish(c, "done", "returned", resp)
    ELSE Finish(c, "error", "HTTPStatusError", resp)

\* request() behind a client-wide lock held across its awaits: a call starts
\* only while no other call is suspended.
Start_Serialised(c, request) ==
    /\ \A d \in Calls : pc[d] \notin {"await_initial", "await_pay", "await_retry"}
    /\ pc[c] = "idle"
    /\ LET key == GenerateIdempotencyKey(request)
           cached_proof == GetByIdempotencyKey(by_key, key)
       IN  /\ idempotency_key' = [idempotency_key EXCEPT ![c] = key]
           /\ inflight' = [inflight EXCEPT ![c] = [NoHeaders EXCEPT !.idempotency_key = key]]
    /\ trace' = [trace EXCEPT ![c] = <<"http_request">>]
    /\ pc' = [pc EXCEPT ![c] = "await_initial"]
    /\ UNCHANGED <<budget, now, last_check, shared, response, payment_request, outcome, pay_log>>

\* request(): up to the first transport round-trip.
Start(c, request) ==
    /\ pc[c] = "idle"
    /\ LET key == GenerateIdempotencyKey(request)
           cached_proof == GetByIdempotencyKey(by_key, key)
       IN  /\ idempotency_key' = [idempotency_key EXCEPT ![c] = key]
           /\ inflight' = [inflight EXCEPT ![c] = [NoHeaders EXCEPT !.idempotency_key = key]]
    /\ trace' = [trace EXCEPT ![c] = <<"http_request">>]
    /\ pc' = [pc EXCEPT ![c] = "await_initial"]
    /\ UNCHANGED <<budget, now, last_check, shared, response, payment_request, outcome, pay_log>>

\* _retry_with_payment: up to its transport round-trip.
RetryWithPayment(c, request, proof, done) ==
    /\ inflight' = [inflight EXCEPT ![c] =
            ApplyPaymentHeaders(inflight[c], OrEmpty(request.invoice_id), proof, ClientPartner)]
    /\ trace' = [trace EXCEPT ![c] = @ \o done \o <<"http_retry">>]
    /\ pc' = [pc EXCEPT ![c] = "await_retry"]
    /\ payment_request' = [payment_request EXCEPT ![c] = NoPaymentRequest]
    /\ idempotency_key' = [idempotency_key EXCEPT ![c] = None]
    /\ UNCHANGED outcome

\* The cached proof request() reuses for a parsed invoice, if any.
CachedProofFor_NeverHit(request) == NoProof

CachedProofFor(request) ==
    IF Truthy(request.invoice_id) THEN GetPaid(by_invoice, request.invoice_id)
    ELSE NoProof

\* A budget check that adds the split outputs to the amount when the mode is
\* additional.
BudgetAllows_CountsSplits(request) ==
    LET outputs == IF request.splits = NoSplits \/ request.splits[1].mode # "additional"
                   THEN <<>> ELSE request.splits[1].outputs
        extra == IF Len(outputs) = 0 THEN 0
                 ELSE IF Len(outputs) = 1 THEN Int_(outputs[1].amount_units)
                 ELSE Int_(outputs[1].amount_units) + Int_(outputs[2].amount_units)
    IN  \/ ~budget.configured
        \/ CheckBudget(budget, spent, now, request.chain, request.asset,
                       Int_(request.amount_units) + extra) = "ok"

\* Whether request() goes on to pay: no tracker, or check_budget returns.
BudgetAllows_Unchecked(request) == TRUE

BudgetAllows(request) ==
    \/ ~budget.configured
    \/ CheckBudget(budget, spent, now, request.chain, request.asset,
                   Int_(request.amount_units)) = "ok"

\* request() on a recognized payment demand, up to the call of payer.pay.
Handle402(c, resp) ==
    LET request == ParseFluxInvoice(resp.data)
        cached == CachedProofFor(request)
        looked == IF Truthy(request.invoice_id) THEN <<"get_paid">> ELSE <<>>
        checked == IF budget.configured THEN <<"check_budget">> ELSE <<>>
    IN  IF ParseFluxInvoiceRaises(resp.data)
        THEN /\ Finish(c, "error", "AttributeError", resp)
             /\ UNCHANGED <<shared, trace, pay_log>>
        ELSE IF cached # NoProof
        THEN /\ RetryWithPayment(c, request, cached, looked)
             /\ response' = [response EXCEPT ![c] = resp]
             /\ UNCHANGED <<shared, pay_log>>
        ELSE IF ~BudgetAllows(request)
        THEN /\ Finish(c, "error", "BudgetExceededError", resp)
             /\ trace' = [trace EXCEPT ![c] = @ \o looked \o checked]
             /\ UNCHANGED <<shared, pay_log>>
        ELSE /\ payment_request' = [payment_request EXCEPT ![c] = request]
             /\ pay_log' = [pay_log EXCEPT ![c] = Append(@, request)]
             /\ trace' = [trace EXCEPT ![c] = @ \o looked \o checked \o <<"pay">>]
             /\ pc' = [pc EXCEPT ![c] = "await_pay"]
             /\ response' = [response EXCEPT ![c] = resp]
             /\ UNCHANGED <<shared, idempotency_key, inflight, outcome>>

\* request(): the initial response arrives.
OnInitialResponse(c, resp) ==
    /\ pc[c] = "await_initial"
    /\ IF resp.status_code = PaymentRequired /\ IsFlux402(resp)
       THEN Handle402(c, resp)
       ELSE /\ RaiseForStatusOrReturn(c, resp)
            /\ UNCHANGED <<shared, trace, pay_log>>
    /\ UNCHANGED <<budget, now, last_check, last_check>>

\* The spend recorded before the proof is cached.
AfterPaySteps_RecordFirst(has_id, tracked) ==
    <<"pay_ok">> \o (IF tracked THEN <<"record_spend">> ELSE <<>>)
       \o (IF has_id THEN <<"set_paid">> ELSE <<>>)

\* request() after payer.pay returned: the operations it performs, in order.
AfterPaySteps(has_id, tracked) ==
    <<"pay_ok">> \o (IF has_id THEN <<"set_paid">> ELSE <<>>)
       \o (IF tracked THEN <<"record_spend">> ELSE <<>>)

\* request() caching the proof whether or not the invoice carries an id.
OnPayReturn_AlwaysCaches(c) ==
    /\ pc[c] = "await_pay"
    /\ LET request == payment_request[c]
           proof == PaymentProof("cardano-txhash", TxHashes[c], None)
           has_id == Truthy(request.invoice_id)
       IN  /\ by_invoice' = SetPaid_Invoice(by_invoice, request.invoice_id, proof)
           /\ by_key' = SetPaid_Key(by_key, proof, idempotency_key[c])
           /\ spent' = IF budget.configured
                       THEN TrackerRecordSpend(spent, now, request.chain, request.asset,
                                               Int_(request.amount_units))
                       ELSE spent
           /\ RetryWithPayment(c, request, proof, AfterPaySteps(has_id, budget.configured))
    /\ UNCHANGED <<budget, now, last_check, response, pay_log>>

\* request(): payer.pay returns a proof; cache it, record the spend, retry.
OnPayReturn(c) ==
    /\ pc[c] = "await_pay"
    /\ LET request == payment_request[c]
           proof == PaymentProof("cardano-txhash", TxHashes[c], None)
           has_id == Truthy(request.invoice_id)
       IN  /\ by_invoice' = IF has_id
                            THEN SetPaid_Invoice(by_invoice, request.invoice_id, proof)
                            ELSE by_invoice
           /\ by_key' = IF has_id THEN SetPaid_Key(by_key, proof, idempotency_key[c])
                        ELSE by_key
           /\ spent' = IF budget.configured
                       THEN TrackerRecordSpend(spent, now, request.chain, request.asset,
                                               Int_(request.amount_units))
                       ELSE spent
           /\ RetryWithPayment(c, request, proof, AfterPaySteps(has_id, budget.configured))
    /\ UNCHANGED <<budget, now, last_check, response, pay_log>>

\* payer.pay raises, and the spend is recorded all the same.
OnPayRaise_RecordsSpend(c) ==
    /\ pc[c] = "await_pay"
    /\ Finish(c, "error", "PaymentError", response[c])
    /\ trace' = [trace EXCEPT ![c] = @ \o <<"pay_failed">>]
    /\ spent' = IF budget.configured
                THEN TrackerRecordSpend(spent, now, payment_request[c].chain,
                                        payment_request[c].asset,
                                        Int_(payment_request[c].amount_units))
                ELSE spent
    /\ UNCHANGED <<budget, now, last_check, by_invoice, by_key, pay_log>>

\* request(): payer.pay raises PaymentError, which propagates.
OnPayRaise(c) ==
    /\ pc[c] = "await_pay"
    /\ Finish(c, "error", "PaymentError", response[c])
    /\ trace' = [trace EXCEPT ![c] = @ \o <<"pay_failed">>]
    /\ UNCHANGED <<budget, now, last_check, shared, pay_log>>

\* The retried response handled like the initial one: a 402 pays again.
OnRetryResponse_Handles402Again(c, resp) ==
    /\ pc[c] = "await_retry"
    /\ IF resp.status_code = PaymentRequired /\ IsFlux402(resp)
       THEN Handle402(c, resp)
       ELSE /\ RaiseForStatusOrReturn(c, resp)
            /\ UNCHANGED <<shared, trace, pay_log>>
    /\ UNCHANGED <<budget, now, last_check, last_check>>

\* A failed retry that starts the call over with a new initial request.
OnRetryResponse_StartsOver(c, resp) ==
    /\ pc[c] = "await_retry"
    /\ IF resp.status_code \in 200..299
       THEN Finish(c, "done", "returned", resp)
       ELSE /\ pc' = [pc EXCEPT ![c] = "await_initial"]
            /\ UNCHANGED <<outcome, response, idempotency_key, payment_request, inflight>>
    /\ UNCHANGED <<budget, now, last_check, shared, trace, pay_log>>

\* A failed retry that takes the call's proof out of the cache again.
OnRetryResponse_ForgetsOnFailure(c, resp) ==
    /\ pc[c] = "await_retry"
    /\ RaiseForStatusOrReturn(c, resp)
    /\ by_invoice' = IF resp.status_code >= 400 /\ pay_log[c] # <<>>
                     THEN DictPop(by_invoice, pay_log[c][1].invoice_id)
                     ELSE by_invoice
    /\ UNCHANGED <<budget, now, last_check, by_key, spent, trace, pay_log>>

\* _retry_with_payment: the retried response arrives.
OnRetryResponse(c, resp) ==
    /\ pc[c] = "await_retry"
    /\ RaiseForStatusOrReturn(c, resp)
    /\ UNCHANGED <<budget, now, last_check, shared, trace, pay_log>>

Next ==
    \E c \in Calls :
        \/ \E request \in Requests : Start(c, request)
        \/ \E resp \in Responses : OnInitialResponse(c, resp)
        \/ OnPayReturn(c)
        \/ OnPayRaise(c)
        \/ \E resp \in RetryResponses : OnRetryResponse(c, resp)

Spec == Init /\ [][Next]_vars

\* request() where every awaited transport call and payer.pay eventually
\* returns or raises: the event loop resumes a suspended call.
Resumes(c) ==
    \/ \E resp \in Responses : OnInitialResponse(c, resp)
    \/ OnPayReturn(c)
    \/ OnPayRaise(c)
    \/ \E resp \in RetryResponses : OnRetryResponse(c, resp)

SpecLive == Init /\ [][Next]_vars /\ \A c \in Calls : WF_vars(Resumes(c))

\* ------------------------------------------------- request(), suspended
\* The awaits at which request() is suspended, where the event loop can
\* deliver a cancellation.
SuspensionPoints == {"await_initial", "await_pay", "await_retry"}

\* ------------------------------- request() over injected cache and store
\* PoiClient(invoice_cache=..., budget_store=...): the cache and the store
\* are the caller's implementations of the InvoiceCache and BudgetStore
\* protocols (Redis, a database), whose set_paid and record_spend suspend
\* the coroutine while they write.
StoreSuspensionPoints == SuspensionPoints \cup {"await_set_paid", "await_record_spend"}

\* The proof payer.pay returned to call c.
ProofOf(c) == PaymentProof("cardano-txhash", TxHashes[c], None)

\* request(): payer.pay returns a proof; the first write is awaited.
OnPayReturnStore(c) ==
    /\ pc[c] = "await_pay"
    /\ LET request == payment_request[c]
       IN  IF Truthy(request.invoice_id)
           THEN /\ pc' = [pc EXCEPT ![c] = "await_set_paid"]
                /\ trace' = [trace EXCEPT ![c] = @ \o <<"pay_ok">>]
                /\ UNCHANGED <<idempotency_key, payment_request, inflight, outcome>>
           ELSE IF budget.configured
           THEN /\ pc' = [pc EXCEPT ![c] = "await_record_spend"]
                /\ trace' = [trace EXCEPT ![c] = @ \o <<"pay_ok">>]
                /\ UNCHANGED <<idempotency_key, payment_request, inflight, outcome>>
           ELSE RetryWithPayment(c, request, ProofOf(c), <<"pay_ok">>)
    /\ UNCHANGED <<budget, now, last_check, shared, response, pay_log>>

\* request(): the cache's set_paid completes; the next write is awaited.
OnSetPaidReturn(c) ==
    /\ pc[c] = "await_set_paid"
    /\ LET request == payment_request[c]
       IN  /\ by_invoice' = SetPaid_Invoice(by_invoice, request.invoice_id, ProofOf(c))
           /\ by_key' = SetPaid_Key(by_key, ProofOf(c), idempotency_key[c])
           /\ IF budget.configured
              THEN /\ pc' = [pc EXCEPT ![c] = "await_record_spend"]
                   /\ trace' = [trace EXCEPT ![c] = @ \o <<"set_paid">>]
                   /\ UNCHANGED <<idempotency_key, payment_request, inflight, outcome>>
              ELSE RetryWithPayment(c, request, ProofOf(c), <<"set_paid">>)
    /\ UNCHANGED <<budget, now, last_check, spent, response, pay_log>>

\* request(): the store's record_spend completes; the retry is sent.
OnRecordSpendReturn(c) ==
    /\ pc[c] = "await_record_spend"
    /\ LET request == payment_request[c]
       IN  /\ spent' = TrackerRecordSpend(spent, now, request.chain, request.asset,
                                          Int_(request.amount_units))
           /\ RetryWithPayment(c, request, ProofOf(c), <<"record_spend">>)
    /\ UNCHANGED <<budget, now, last_check, by_invoice, by_key, response, pay_log>>

\* The task is cancelled: CancelledError is raised at the await the
\* coroutine is suspended in and propagates; the statements after that
\* await never run.  A write the cache or the store was in the middle of
\* may or may not have landed.
CancelStore(c) ==
    /\ pc[c] \in StoreSuspensionPoints
    /\ Finish(c, "error", "CancelledError", response[c])
    /\ trace' = [trace EXCEPT ![c] = @ \o <<"cancelled">>]
    /\ \E landed \in BOOLEAN :
         LET request == payment_request[c]
         IN  /\ by_invoice' = IF landed /\ pc[c] = "await_set_paid"
                              THEN SetPaid_Invoice(by_invoice, request.invoice_id, ProofOf(c))
                              ELSE by_invoice
             /\ by_key' = IF landed /\ pc[c] = "await_set_paid"
                          THEN SetPaid_Key(by_key, ProofOf(c), idempotency_key[c])
                          ELSE by_key
             /\ spent' = IF landed /\ pc[c] = "await_record_spend"
                         THEN TrackerRecordSpend(spent, now, request.chain, request.asset,
                                                 Int_(request.amount_units))
                         ELSE spent
    /\ UNCHANGED <<budget, now, last_check, pay_log>>

NextStore ==
    \E c \in Calls :
        \/ \E request \in Requests : Start(c, request)
        \/ \E resp \in Responses : OnInitialResponse(c, resp)
        \/ OnPayReturnStore(c)
        \/ OnPayRaise(c)
        \/ OnSetPaidReturn(c)
        \/ OnRecordSpendReturn(c)
        \/ \E resp \in RetryResponses : OnRetryResponse(c, resp)
        \/ CancelStore(c)

SpecStore == Init /\ [][NextStore]_vars

\* ------------------------------------------------------ PoiClient.stream
\* stream() is an async generator the caller iterates to its end.  It is
\* suspended in the two transport round-trips and in payer.pay.
\* What the server may answer a streaming request: as for request(), and a
\* 402 with a JSON invoice body that also carries the x402 header.
StreamResponses ==
    Responses \cup {Response(PaymentRequired, "application/json", TRUE, FirstInvoice)}

\* json.loads(body_bytes) succeeds: the body of a JSON-typed response is
\* JSON, that of another content type is not.
BodyIsJson(resp) == ContainsApplicationJson(resp.content_type)

\* stream(): up to the first transport round-trip.  No idempotency key is
\* computed and no idempotency header is sent.
StartStream(c, request) ==
    /\ pc[c] = "idle"
    /\ inflight' = [inflight EXCEPT ![c] = NoHeaders]
    /\ trace' = [trace EXCEPT ![c] = <<"http_stream">>]
    /\ pc' = [pc EXCEPT ![c] = "stream_initial"]
    /\ UNCHANGED <<budget, now, last_check, shared, idempotency_key, response,
                   payment_request, outcome, pay_log>>

\* stream(): the initial response arrives.  Any 402 is read as an invoice.
OnStreamInitialResponse(c, resp) ==
    /\ pc[c] = "stream_initial"
    /\ IF resp.status_code = PaymentRequired
       THEN IF ~BodyIsJson(resp)
            THEN /\ Finish(c, "error", "JSONDecodeError", resp)
                 /\ UNCHANGED <<trace, pay_log>>
            ELSE LET request == ParseFluxInvoice(resp.data)
                     checked == IF budget.configured THEN <<"check_budget">> ELSE <<>>
                 IN  IF ParseFluxInvoiceRaises(resp.data)
                     THEN /\ Finish(c, "error", "AttributeError", resp)
                          /\ UNCHANGED <<trace, pay_log>>
                     ELSE IF ~BudgetAllows(request)
                     THEN /\ Finish(c, "error", "BudgetExceededError", resp)
                          /\ trace' = [trace EXCEPT ![c] = @ \o checked]
                          /\ UNCHANGED pay_log
                     ELSE /\ payment_request' = [payment_request EXCEPT ![c] = request]
                          /\ pay_log' = [pay_log EXCEPT ![c] = Append(@, request)]
                          /\ trace' = [trace EXCEPT ![c] = @ \o checked \o <<"pay">>]
                          /\ pc' = [pc EXCEPT ![c] = "stream_pay"]
                          /\ response' = [response EXCEPT ![c] = resp]
                          /\ UNCHANGED <<idempotency_key, inflight, outcome>>
       ELSE /\ RaiseForStatusOrReturn(c, resp)
            /\ UNCHANGED <<trace, pay_log>>
    /\ UNCHANGED <<budget, now, last_check, shared>>

\* stream(): payer.pay returns a proof; cache it under the invoice id only,
\* record the spend, send the paid retry.
OnStreamPayReturn(c) ==
    /\ pc[c] = "stream_pay"
    /\ LET request == payment_request[c]
           proof == ProofOf(c)
           has_id == Truthy(request.invoice_id)
       IN  /\ by_invoice' = IF has_id
                            THEN SetPaid_Invoice(by_invoice, request.invoice_id, proof)
                            ELSE by_invoice
           /\ by_key' = IF has_id THEN SetPaid_Key(by_key, proof, None) ELSE by_key
           /\ spent' = IF budget.configured
                       THEN TrackerRecordSpend(spent, now, request.chain, request.asset,
                                               Int_(request.amount_units))
                       ELSE spent
           /\ inflight' = [inflight EXCEPT ![c] =
                   ApplyPaymentHeaders(inflight[c], OrEmpty(request.invoice_id), proof,
                                       ClientPartner)]
           /\ trace' = [trace EXCEPT ![c] =
                   @ \o AfterPaySteps(has_id, budget.configured) \o <<"http_retry">>]
    /\ pc' = [pc EXCEPT ![c] = "stream_retry"]
    /\ payment_request' = [payment_request EXCEPT ![c] = NoPaymentRequest]
    /\ UNCHANGED <<budget, now, last_check, idempotency_key, response, outcome, pay_log>>

\* payer.pay raises in stream(), and the spend is recorded all the same.
OnStreamPayRaise_RecordsSpend(c) ==
    /\ pc[c] = "stream_pay"
    /\ Finish(c, "error", "PaymentError", response[c])
    /\ trace' = [trace EXCEPT ![c] = @ \o <<"pay_failed">>]
    /\ spent' = IF budget.configured
                THEN TrackerRecordSpend(spent, now, payment_request[c].chain,
                                        payment_request[c].asset,
                                        Int_(payment_request[c].amount_units))
                ELSE spent
    /\ UNCHANGED <<budget, now, last_check, by_invoice, by_key, pay_log>>

\* stream(): payer.pay raises PaymentError, which propagates.
OnStreamPayRaise(c) ==
    /\ pc[c] = "stream_pay"
    /\ Finish(c, "error", "PaymentError", response[c])
    /\ trace' = [trace EXCEPT ![c] = @ \o <<"pay_failed">>]
    /\ UNCHANGED <<budget, now, last_check, shared, pay_log>>

\* stream(): the retried response arrives: raise_for_status, then the
\* chunks of the stream are yielded.
OnStreamRetryResponse(c, resp) ==
    /\ pc[c] = "stream_retry"
    /\ RaiseForStatusOrReturn(c, resp)
    /\ UNCHANGED <<budget, now, last_check, shared, trace, pay_log>>

\* One client whose callers use request() and stream().
NextStream ==
    \/ Next
    \/ \E c \in Calls :
          \/ \E request \in Requests : StartStream(c, request)
          \/ \E resp \in StreamResponses : OnStreamInitialResponse(c, resp)
          \/ OnStreamPayReturn(c)
          \/ OnStreamPayRaise(c)
          \/ \E resp \in RetryResponses : OnStreamRetryResponse(c, resp)

SpecStream == Init /\ [][NextStream]_vars

\* ------------------------------------------- the budget tracker on its own
\* A BudgetTracker over a MemoryBudgetStore, called directly while the clock
\* runs: check_budget, record_spend, the store's reset.
Pairs == {<<<<"cardano", "mainnet">>, <<"ADA">>>>, <<<<"eip155", "8453">>, <<"USDC">>>>}
CheckAmounts == (-1)..(MaxSpent + 2)
\* The amounts record_spend is called with: any int, a negative one included.
RecordAmounts == {-MaxNegative} \cup 1..MaxAmount
TrackerConfigs ==
    { BudgetConfig(r, d, h) :
          r \in {NoneDec, Str(0), Str(1)}, d \in {NoneDec, Str(0), Str(MaxAmount)},
          h \in {0, 6} }

RECURSIVE DictTotal(_)
DictTotal(d) ==
    IF DOMAIN d = {} THEN 0
    ELSE LET k == CHOOSE x \in DOMAIN d : TRUE IN d[k] + DictTotal(DictPop(d, k))

InitBudget ==
    /\ budget \in TrackerConfigs
    /\ now = [day |-> 0, hour |-> 0]
    /\ by_invoice = EmptyDict
    /\ by_key = EmptyDict
    /\ spent = EmptyDict
    /\ pc = [c \in Calls |-> "idle"]
    /\ idempotency_key = [c \in Calls |-> None]
    /\ response = [c \in Calls |-> NoResponse]
    /\ payment_request = [c \in Calls |-> NoPaymentRequest]
    /\ inflight = [c \in Calls |-> NoHeaders]
    /\ outcome = [c \in Calls |-> NoOutcome]
    /\ trace = [c \in Calls |-> <<>>]
    /\ pay_log = [c \in Calls |-> <<>>]
    /\ last_check = NoCheck

\* check_budget reserving the amount in the ledger when it succeeds.
DoCheckBudget_Reserves(chain, asset, amount) ==
    /\ last_check' = [chain |-> chain, asset |-> asset, amount |-> amount,
                      result |-> CheckBudget(budget, spent, now, chain, asset, amount)]
    /\ spent' = IF CheckBudget(budget, spent, now, chain, asset, amount) = "ok"
                THEN TrackerRecordSpend(spent, now, chain, asset, amount)
                ELSE spent
    /\ UNCHANGED <<budget, now, by_invoice, by_key, calls>>

\* await tracker.check_budget(chain, asset, amount)
DoCheckBudget(chain, asset, amount) ==
    /\ last_check' = [chain |-> chain, asset |-> asset, amount |-> amount,
                      result |-> CheckBudget(budget, spent, now, chain, asset, amount)]
    /\ UNCHANGED <<budget, now, shared, calls>>

\* await tracker.record_spend(chain, asset, amount)
DoRecordSpend(chain, asset, amount) ==
    /\ DictTotal(spent) + amount <= MaxSpent
    /\ GetSpent(spent, chain, asset, GetToday(now)) + amount >= 0
    /\ spent' = TrackerRecordSpend(spent, now, chain, asset, amount)
    /\ UNCHANGED <<budget, now, by_invoice, by_key, calls, last_check>>

\* await store.reset(chain, asset)
DoReset(chain, asset) ==
    /\ spent' = StoreReset(spent, now, chain, asset)
    /\ UNCHANGED <<budget, now, by_invoice, by_key, calls, last_check>>

\* remaining = await tracker.get_remaining_budget(chain, asset); last_check
\* keeps what came back: a number, or None ("no_limit").
DoGetRemainingBudget(chain, asset) ==
    /\ LET remaining == GetRemainingBudget(budget, spent, now, chain, asset)
       IN  last_check' = IF remaining = NoneInt
                         THEN [chain |-> chain, asset |-> asset, amount |-> 0,
                               result |-> "no_limit"]
                         ELSE [chain |-> chain, asset |-> asset, amount |-> remaining[1],
                               result |-> "remaining"]
    /\ UNCHANGED <<budget, now, shared, calls>>

\* The UTC clock advances.
Tick ==
    /\ LET h == now.hour + TickHours
       IN  now' = IF h >= HoursPerDay
                  THEN [day |-> now.day + 1, hour |-> h - HoursPerDay]
                  ELSE [day |-> now.day, hour |-> h]
    /\ now'.day <= MaxDay
    /\ UNCHANGED <<budget, shared, calls, last_check>>

NextBudget ==
    \/ \E p \in Pairs, a \in CheckAmounts : DoCheckBudget(p[1], p[2], a)
    \/ \E p \in Pairs, a \in 1..MaxAmount : DoRecordSpend(p[1], p[2], a)
    \/ \E p \in Pairs : DoReset(p[1], p[2])
    \/ \E p \in Pairs : DoGetRemainingBudget(p[1], p[2])
    \/ Tick

SpecBudget == InitBudget /\ [][NextBudget]_vars

\* The ledger under record_spend calls with any int amount (record_spend
\* takes the int of whatever amount the invoice states), resets and the clock.
NextLedger ==
    \/ \E p \in Pairs, a \in RecordAmounts : DoRecordSpend(p[1], p[2], a)
    \/ \E p \in Pairs : DoReset(p[1], p[2])
    \/ Tick

SpecLedger == InitBudget /\ [][NextLedger]_vars

\* ------------------------------- MemoryBudgetStore under concurrent tasks
\* Tasks of one event loop call record_spend and get_spent on one
\* MemoryBudgetStore.  Neither coroutine holds an await, so each call runs
\* from its first statement to its return with no other task in between.
\* trace[c] keeps what task c has recorded; last_check the last read.
InitStore ==
    /\ budget = NoBudget
    /\ now = [day |-> 0, hour |-> 0]
    /\ by_invoice = EmptyDict
    /\ by_key = EmptyDict
    /\ spent = EmptyDict
    /\ pc = [c \in Calls |-> "idle"]
    /\ idempotency_key = [c \in Calls |-> None]
    /\ response = [c \in Calls |-> NoResponse]
    /\ payment_request = [c \in Calls |-> NoPaymentRequest]
    /\ inflight = [c \in Calls |-> NoHeaders]
    /\ outcome = [c \in Calls |-> NoOutcome]
    /\ trace = [c \in Calls |-> <<>>]
    /\ pay_log = [c \in Calls |-> <<>>]
    /\ last_check = NoCheck

\* record_spend writing the sum of the amount and a total read earlier, in
\* the last get_spent, instead of the total the ledger holds now.
StoreRecordSpendBy_StaleRead(c, chain, asset, amount) ==
    /\ DictTotal(spent) + amount <= MaxSpent
    /\ LET key == SpentKey(chain, asset, GetToday(now))
           base == IF last_check.result = "read" /\ last_check.chain = chain
                      /\ last_check.asset = asset
                   THEN last_check.amount
                   ELSE DictGet(spent, key, 0)
       IN  spent' = DictSet(spent, key, base + amount)
    /\ trace' = [trace EXCEPT ![c] = Append(@, [chain |-> chain, asset |-> asset,
                                                day |-> GetToday(now), amount |-> amount])]
    /\ UNCHANGED <<budget, now, by_invoice, by_key, pc, idempotency_key, response,
                   payment_request, inflight, outcome, pay_log, last_check>>

\* Task c: await store.record_spend(chain, asset, amount)
StoreRecordSpendBy(c, chain, asset, amount) ==
    /\ DictTotal(spent) + amount <= MaxSpent
    /\ spent' = StoreRecordSpend(spent, now, chain, asset, amount)
    /\ trace' = [trace EXCEPT ![c] = Append(@, [chain |-> chain, asset |-> asset,
                                                day |-> GetToday(now), amount |-> amount])]
    /\ UNCHANGED <<budget, now, by_invoice, by_key, pc, idempotency_key, response,
                   payment_request, inflight, outcome, pay_log, last_check>>

\* Task c: await store.get_spent(chain, asset, today)
StoreGetSpentBy(c, chain, asset) ==
    /\ last_check' = [chain |-> chain, asset |-> asset,
                      amount |-> GetSpent(spent, chain, asset, GetToday(now)),
                      result |-> "read"]
    /\ UNCHANGED <<budget, now, shared, calls>>

NextStoreTasks ==
    \/ \E c \in Calls, p \in Pairs, a \in 1..MaxAmount : StoreRecordSpendBy(c, p[1], p[2], a)
    \/ \E c \in Calls, p \in Pairs : StoreGetSpentBy(c, p[1], p[2])
    \/ Tick

SpecStoreTasks == InitStore /\ [][NextStoreTasks]_vars

\* ------------------------------------- the ledger over arbitrary pairs
\* chain and asset are plain str arguments; the chain of an invoice is the
\* wire name when CHAIN_MAPPING has no entry for it and the asset is the
\* invoice's currency field.  AnyPairs adds to Pairs a pair whose chain is
\* "eip155" and whose asset is "8453:USDC".
AnyPairs == Pairs \cup {<<<<"eip155">>, <<"8453", "USDC">>>>}

NextPairs ==
    \/ \E p \in AnyPairs, a \in 0..MaxAmount : DoCheckBudget(p[1], p[2], a)
    \/ \E p \in AnyPairs, a \in 1..MaxAmount : DoRecordSpend(p[1], p[2], a)
    \/ \E p \in AnyPairs : DoReset(p[1], p[2])
    \/ \E p \in AnyPairs : DoGetRemainingBudget(p[1], p[2])
    \/ Tick

SpecPairs == InitBudget /\ [][NextPairs]_vars

\* ------------------------------------------ MemoryInvoiceCache on its own
\* A MemoryInvoiceCache called directly: set_paid, get_paid,
\* get_by_idempotency_key, clear, len().  trace[1] keeps the set_paid calls
\* made since the cache was last empty; last_check the last call and what it
\* returned.
CacheIds == {"", "inv1", "inv2"}
CacheKeys == {None, "", "3f1a"}
CacheProofs ==
    { PaymentProof("cardano-txhash", "tx1", None),
      PaymentProof("evm-txhash", "0x12", None) }
NoCall == [op |-> "none", id |-> None, key |-> None, proof |-> NoProof]

InitCache ==
    /\ budget = NoBudget
    /\ now = StartClock
    /\ by_invoice = EmptyDict
    /\ by_key = EmptyDict
    /\ spent = EmptyDict
    /\ pc = [c \in Calls |-> "idle"]
    /\ idempotency_key = [c \in Calls |-> None]
    /\ response = [c \in Calls |-> NoResponse]
    /\ payment_request = [c \in Calls |-> NoPaymentRequest]
    /\ inflight = [c \in Calls |-> NoHeaders]
    /\ outcome = [c \in Calls |-> NoOutcome]
    /\ trace = [c \in Calls |-> <<>>]
    /\ pay_log = [c \in Calls |-> <<>>]
    /\ last_check = NoCall

\* The frame of a direct cache call.
CacheCallFrame ==
    UNCHANGED <<budget, now, spent, pc, idempotency_key, response, payment_request,
                inflight, outcome, pay_log>>

\* await cache.set_paid(invoice_id, proof, idempotency_key=key)
DoSetPaid(invoice_id, proof, key) ==
    /\ Len(trace[1]) < MaxCacheOps
    /\ by_invoice' = SetPaid_Invoice(by_invoice, invoice_id, proof)
    /\ by_key' = SetPaid_Key(by_key, proof, key)
    /\ trace' = [trace EXCEPT ![1] = Append(@, [id |-> invoice_id, key |-> key,
                                                proof |-> proof])]
    /\ last_check' = [op |-> "set_paid", id |-> invoice_id, key |-> key, proof |-> proof]
    /\ CacheCallFrame

\* await cache.get_paid(invoice_id)
DoGetPaid(invoice_id) ==
    /\ last_check' = [op |-> "get_paid", id |-> invoice_id, key |-> None,
                      proof |-> GetPaid(by_invoice, invoice_id)]
    /\ UNCHANGED <<by_invoice, by_key, trace>>
    /\ CacheCallFrame

\* await cache.get_by_idempotency_key(key)
DoGetByIdempotencyKey(key) ==
    /\ last_check' = [op |-> "get_by_idempotency_key", id |-> None, key |-> key,
                      proof |-> GetByIdempotencyKey(by_key, key)]
    /\ UNCHANGED <<by_invoice, by_key, trace>>
    /\ CacheCallFrame

\* await cache.clear()
DoClear ==
    /\ by_invoice' = EmptyDict
    /\ by_key' = EmptyDict
    /\ trace' = [trace EXCEPT ![1] = <<>>]
    /\ last_check' = [op |-> "clear", id |-> None, key |-> None, proof |-> NoProof]
    /\ CacheCallFrame

\* len(cache)
CacheLen(by_inv) == Cardinality(DOMAIN by_inv)

NextCache ==
    \/ \E id \in CacheIds, proof \in CacheProofs, key \in CacheKeys :
          DoSetPaid(id, proof, key)
    \/ \E id \in CacheIds : DoGetPaid(id)
    \/ \E key \in CacheKeys \ {None} : DoGetByIdempotencyKey(key)
    \/ DoClear

SpecCache == InitCache /\ [][NextCache]_vars

\* ------------------------------------------- the paid retry on its own
\* _retry_with_payment(method, url, body, headers, request, proof) called
\* with the request of an invoice and a proof of any kind; last_check keeps
\* the invoice id and the proof of the last call.
ProofKinds == {"cardano-txhash", "cardano-signed-cbor", "evm-txhash"}
HeaderProofs ==
    { PaymentProof(kind, tx_hash, cbor_hex) :
          kind \in ProofKinds, tx_hash \in {None, "tx1"}, cbor_hex \in {None, "84a4"} }
HeaderInvoiceIds == {None, "inv1", "inv2"}

DoRetryWithPayment(c, invoice_id, proof) ==
    /\ pc[c] = "idle"
    /\ RetryWithPayment(c, [NoPaymentRequest EXCEPT !.invoice_id = invoice_id], proof, <<>>)
    /\ last_check' = [op |-> "retry_with_payment", id |-> invoice_id, key |-> None,
                      proof |-> proof]
    /\ UNCHANGED <<budget, now, shared, response, pay_log>>

NextHeaders ==
    \E c \in Calls, invoice_id \in HeaderInvoiceIds, proof \in HeaderProofs :
        DoRetryWithPayment(c, invoice_id, proof)

SpecHeaders == InitCache /\ [][NextHeaders]_vars

\* ------------------------------------- request() over any chain name
\* The server's invoice names its chain by a name of the table, by a name
\* the table lacks, by a CAIP-2 id, by the empty string, or not at all; its
\* invoiceId is a name, the empty string, or absent.
WireChainNames ==
    DOMAIN CHAIN_MAPPING \cup {"unknown:chain", "solana-mainnet", "cardano:mainnet", ""}
ChainInvoices ==
    { [k \in {"invoiceId", "amount", "chain", "currency"} |->
          CASE k = "invoiceId" -> "inv1"
            [] k = "amount" -> 1
            [] k = "chain" -> name
            [] k = "currency" -> "ADA"] : name \in WireChainNames }
      \cup
    { [k \in {"invoiceId", "amount"} |->
          CASE k = "invoiceId" -> "inv2"
            [] k = "amount" -> 1] }
      \cup
    { [k \in {"invoiceId", "amount", "chain"} |->
          CASE k = "invoiceId" -> ""
            [] k = "amount" -> 1
            [] k = "chain" -> "cardano-mainnet"] }
      \cup
    { [k \in {"amount", "chain"} |->
          CASE k = "amount" -> 1
            [] k = "chain" -> "cardano-mainnet"] }
ChainResponses ==
    PlainResponses
      \cup {Response(PaymentRequired, "application/json", FALSE, d) : d \in ChainInvoices}

NextChains ==
    \E c \in Calls :
        \/ \E request \in Requests : Start(c, request)
        \/ \E resp \in ChainResponses : OnInitialResponse(c, resp)
        \/ OnPayReturn(c)
        \/ OnPayRaise(c)
        \/ \E resp \in RetryResponses : OnRetryResponse(c, resp)

SpecChains == Init /\ [][NextChains]_vars

\* ------------------------------------- request() calls one after another
\* `await client.request(...)` twice in a row: a call starts and runs only
\* while no other call is under way.
NoOtherUnderWay(c) == \A d \in Calls \ {c} : pc[d] \in {"idle", "done", "error"}

NextSequential ==
    \E c \in Calls :
        \/ \E request \in Requests : NoOtherUnderWay(c) /\ Start(c, request)
        \/ \E resp \in Responses : NoOtherUnderWay(c) /\ OnInitialResponse(c, resp)
        \/ NoOtherUnderWay(c) /\ OnPayReturn(c)
        \/ NoOtherUnderWay(c) /\ OnPayRaise(c)
        \/ \E resp \in RetryResponses : NoOtherUnderWay(c) /\ OnRetryResponse(c, resp)

SpecSequential == Init /\ [][NextSequential]_vars

\* ---------------------------- request() over invoices with splits, expiry
\* The server's invoice carries a splits array (absent, empty, one or two
\* entries, in either order) with or without splitMode, or an expiresAt
\* value (a future, present or past instant, an unparsable or empty string,
\* null, a number).
WireSplitA == [to |-> "addr_partner", amount |-> 1, role |-> "partner"]
WireSplitB == [to |-> "addr_treasury", amount |-> MaxAmount, currency |-> "ADA"]
WireSplitLists == {<<>>, <<WireSplitA>>, <<WireSplitA, WireSplitB>>, <<WireSplitB, WireSplitA>>}
WireSplitModes == {"inclusive", "additional"}
BaseInvoice(a) ==
    [k \in {"invoiceId", "amount", "chain", "currency"} |->
        CASE k = "invoiceId" -> "inv1"
          [] k = "amount" -> a
          [] k = "chain" -> "cardano-mainnet"
          [] k = "currency" -> "ADA"]
SplitInvoices ==
    {BaseInvoice(a) : a \in InvoiceAmounts}
      \cup {DictSet(BaseInvoice(1), "splits", l) : l \in WireSplitLists}
      \cup {DictSet(DictSet(BaseInvoice(1), "splits", l), "splitMode", m) :
               l \in WireSplitLists \ {<<>>}, m \in WireSplitModes}
      \cup {DictSet(DictSet(BaseInvoice(MaxAmount), "splits", <<WireSplitA>>),
                    "splitMode", "inclusive")}
WireExpiries ==
    {JsonNull, JsonNumber(0), JsonNumber(1700000000), JsonString(""), JsonString("tomorrow")}
      \cup {JsonString(text) : text \in DOMAIN IsoInstants}
ExpiryInvoices == {DictSet(BaseInvoice(1), "expiresAt", e) : e \in WireExpiries}

SplitResponses ==
    PlainResponses
      \cup {Response(PaymentRequired, "application/json", FALSE, d) : d \in SplitInvoices}
ExpiryResponses ==
    PlainResponses
      \cup {Response(PaymentRequired, "application/json", FALSE, d) : d \in ExpiryInvoices}

NextSplits ==
    \E c \in Calls :
        \/ \E request \in Requests : Start(c, request)
        \/ \E resp \in SplitResponses : OnInitialResponse(c, resp)
        \/ OnPayReturn(c)
        \/ OnPayRaise(c)
        \/ \E resp \in RetryResponses : OnRetryResponse(c, resp)

SpecSplits == Init /\ [][NextSplits]_vars

NextExpiry ==
    \E c \in Calls :
        \/ \E request \in Requests : Start(c, request)
        \/ \E resp \in ExpiryResponses : OnInitialResponse(c, resp)
        \/ OnPayReturn(c)
        \/ OnPayRaise(c)
        \/ \E resp \in RetryResponses : OnRetryResponse(c, resp)

SpecExpiry == Init /\ [][NextExpiry]_vars

\* =============================================================== claims
Range(seq) == {seq[i] : i \in 1..Len(seq)}
Count(seq, ops) == Cardinality({i \in 1..Len(seq) : seq[i] \in ops})
\* Transport requests a call has issued.
HttpCount(c) == Count(trace[c], {"http_request", "http_retry"})
Terminal == {"done", "error"}
\* The three detection conditions of the 402 rule, stated on a response.
ThreeConditions(r) ==
    /\ r.status_code = 402
    /\ r.content_type \in {"application/json", "application/json; charset=utf-8"}
    /\ ~r.payment_required
\* Call c receives its initial response in this step.
ReceivesInitial(c) == pc[c] = "await_initial" /\ pc'[c] # "await_initial"
\* The invoice of the initial response call c has just received.
Invoice(c) == ParseFluxInvoice(response[c].data)
InCache(request) ==
    Truthy(request.invoice_id) /\ request.invoice_id \in DOMAIN by_invoice
OverBudget(request) ==
    /\ budget.configured
    /\ CheckBudget(budget, spent, now, request.chain, request.asset,
                   Int_(request.amount_units)) # "ok"

\* C1: for every invoice identifier, over all calls of one client, payer.pay
\* is invoked at most once with a request carrying that identifier.
C1_PayInvokedAtMostOncePerInvoice ==
    \A id \in InvoiceIds :
        Cardinality(UNION {{<<c, k>> : k \in {j \in DOMAIN pay_log[c] :
                                                   pay_log[c][j].invoice_id = id}} :
                           c \in Calls}) <= 1

\* C2: a call whose budget check fails on a recognized payment demand raises
\* BudgetExceededError having invoked payer.pay never, sent no retry, and
\* changed neither the invoice cache nor the spend ledger (no step of the
\* call, from its start on, changes them).
C2_BudgetRejectionAborts ==
    [][\A c \in Calls :
         /\ (pc[c] = "idle" /\ pc'[c] # "idle") => UNCHANGED shared
         /\ (/\ ReceivesInitial(c)
             /\ ThreeConditions(response'[c])
             /\ ~InCache(Invoice(c)')
             /\ OverBudget(Invoice(c)'))
            => /\ pc'[c] = "error"
               /\ outcome'[c].kind = "BudgetExceededError"
               /\ pay_log'[c] = <<>>
               /\ HttpCount(c)' = 1
               /\ UNCHANGED shared]_vars

C2_Witness ==
    \E c \in Calls :
        /\ outcome[c].kind = "BudgetExceededError"
        /\ by_invoice # EmptyDict
        /\ spent # EmptyDict

C4_PayerFailureAborts ==
    [][\A c \in Calls :
         /\ (pc[c] = "idle" /\ pc'[c] # "idle") => UNCHANGED shared
         /\ (pc[c] # "await_pay" /\ pc'[c] = "await_pay") => UNCHANGED shared
         /\ (pc[c] = "await_pay" /\ pc'[c] = "error")
            => /\ outcome'[c].kind = "PaymentError"
               /\ HttpCount(c)' = 1
               /\ pay_log'[c] = pay_log[c]
               /\ UNCHANGED shared]_vars

C4_Witness ==
    \E c \in Calls :
        /\ outcome[c].kind = "PaymentError"
        /\ budget.configured
        /\ Truthy(pay_log[c][1].invoice_id)

\* C5: on the cache-miss path the operations of a call occur in the order
\* budget check, payer.pay, cache store, budget record, retry, none of them
\* without all the earlier ones that apply; a proof is in the cache only
\* once its payment has succeeded, and the ledger holds exactly the amounts
\* of the calls that have recorded.
StepRank(op) ==
    CASE op = "http_request" -> 1
      [] op = "get_paid" -> 2
      [] op = "check_budget" -> 3
      [] op = "pay" -> 4
      [] op \in {"pay_ok", "pay_failed"} -> 5
      [] op = "set_paid" -> 6
      [] op = "record_spend" -> 7
      [] op = "http_retry" -> 8
RECURSIVE SumOver(_, _)
SumOver(S, f) ==
    IF S = {} THEN 0
    ELSE LET x == CHOOSE y \in S : TRUE IN f[x] + SumOver(S \ {x}, f)
LedgerTotal == SumOver(DOMAIN spent, spent)
RecordedTotal ==
    SumOver({c \in Calls : "record_spend" \in Range(trace[c])},
            [c \in Calls |-> IF pay_log[c] = <<>> THEN 0
                             ELSE Int_(pay_log[c][1].amount_units)])
C5_MissPathOrder ==
    /\ \A c \in Calls :
         LET t == trace[c]
             has(op) == op \in Range(t)
         IN  has("pay") =>
               /\ \A i, j \in 1..Len(t) : i < j => StepRank(t[i]) < StepRank(t[j])
               /\ budget.configured => has("check_budget")
               /\ has("set_paid") => has("pay_ok")
               /\ has("record_spend") =>
                    /\ has("pay_ok")
                    /\ Truthy(pay_log[c][1].invoice_id) => has("set_paid")
               /\ has("http_retry") =>
                    /\ has("pay_ok")
                    /\ Truthy(pay_log[c][1].invoice_id) => has("set_paid")
                    /\ budget.configured => has("record_spend")
               /\ has("set_paid") => pay_log[c][1].invoice_id \in DOMAIN by_invoice
    /\ \A id \in DOMAIN by_invoice : \E c \in Calls :
         /\ by_invoice[id].tx_hash = TxHashes[c]
         /\ "pay_ok" \in Range(trace[c])
    /\ LedgerTotal = RecordedTotal

C5_Witness ==
    \E c \in Calls :
        trace[c] = <<"http_request", "get_paid", "check_budget", "pay", "pay_ok",
                     "set_paid", "record_spend", "http_retry">>

\* C6: with no budget configured, a recognized payment demand whose invoice
\* identifier is not cached makes the call invoke payer.pay exactly once with
\* the invoice's exact amount; the returned proof is stored under the invoice
\* identifier and under the call's idempotency key, the retry carries it in
\* the payment header, and the retried response is what the call returns.
C6_PayStoreRetryReturn ==
    [][\A c \in Calls : ~budget.configured =>
         /\ (/\ ReceivesInitial(c)
             /\ ThreeConditions(response'[c])
             /\ Truthy(Invoice(c)'.invoice_id)
             /\ ~InCache(Invoice(c)'))
            => /\ pc'[c] = "await_pay"
               /\ Len(pay_log'[c]) = 1
               /\ pay_log'[c][1].invoice_id = response'[c].data["invoiceId"]
               /\ Int_(pay_log'[c][1].amount_units) = response'[c].data["amount"]
         /\ (/\ pc[c] = "await_pay" /\ pc'[c] # "await_pay" /\ pc'[c] # "error"
             /\ Truthy(pay_log[c][1].invoice_id))
            => LET id == pay_log[c][1].invoice_id
                   key == idempotency_key[c]
               IN  /\ pc'[c] = "await_retry"
                   /\ Len(pay_log'[c]) = 1
                   /\ id \in DOMAIN by_invoice'
                   /\ by_invoice'[id].tx_hash = TxHashes[c]
                   /\ key \in DOMAIN by_key'
                   /\ by_key'[key] = by_invoice'[id]
                   /\ inflight'[c].payment = TxHashes[c]
                   /\ inflight'[c].invoice_id = id
                   /\ inflight'[c].idempotency_key = key
         /\ (pc[c] = "await_retry" /\ pc'[c] = "done")
            => /\ outcome'[c].kind = "returned"
               /\ outcome'[c].value.status_code = 200
               /\ outcome'[c].value # response[c]]_vars

C6_Witness ==
    \E c \in Calls :
        /\ ~budget.configured
        /\ pc[c] = "done"
        /\ trace[c] = <<"http_request", "get_paid", "pay", "pay_ok", "set_paid", "http_retry">>
        /\ pay_log[c][1].invoice_id \in DOMAIN by_invoice

\* C7: the initial response is treated as a payment demand exactly when its
\* status is 402, its content type is JSON and the x402 payment-required
\* header is absent; on every other response the call has made exactly one
\* transport request, never invokes payer.pay, changes neither cache nor
\* ledger, and returns that response (2xx) or raises its status error.
C7_Detection ==
    [][\A c \in Calls : ReceivesInitial(c) =>
         IF ThreeConditions(response'[c])
         THEN \/ pc'[c] \in {"await_pay", "await_retry"}
              \/ outcome'[c].kind = "BudgetExceededError"
         ELSE /\ pc'[c] \in Terminal
              /\ outcome'[c].kind = IF response'[c].status_code \in 200..299
                                    THEN "returned" ELSE "HTTPStatusError"
              /\ outcome'[c].value = response'[c]
              /\ trace'[c] = <<"http_request">>
              /\ pay_log'[c] = <<>>
              /\ UNCHANGED shared]_vars

C7_Witness ==
    \E c \in Calls :
        /\ outcome[c].kind = "HTTPStatusError"
        /\ outcome[c].value.status_code = 402
        /\ outcome[c].value.content_type = "application/json"
        /\ outcome[c].value.payment_required
        /\ trace[c] = <<"http_request">>

\* C8: a call issues at most two transport requests and invokes payer.pay at
\* most once; when the retried response arrives the call ends, returning it
\* (2xx) or raising its status error (another 402 included), with no further
\* payment, request, cache or ledger change; an ended call does nothing more.
C8_RetriedAtMostOnce ==
    [][\A c \in Calls :
         /\ HttpCount(c)' <= 2
         /\ Len(pay_log'[c]) <= 1
         /\ (pc[c] = "await_retry" /\ pc'[c] # "await_retry")
            => /\ pc'[c] \in Terminal
               /\ outcome'[c].kind = IF response'[c].status_code \in 200..299
                                     THEN "returned" ELSE "HTTPStatusError"
               /\ outcome'[c].value = response'[c]
               /\ trace'[c] = trace[c]
               /\ pay_log'[c] = pay_log[c]
               /\ UNCHANGED shared
         /\ pc[c] \in Terminal
            => /\ pc'[c] = pc[c]
               /\ outcome'[c] = outcome[c]
               /\ trace'[c] = trace[c]
               /\ pay_log'[c] = pay_log[c]]_vars

C8_Witness ==
    \E c \in Calls :
        /\ outcome[c].kind = "HTTPStatusError"
        /\ outcome[c].value.status_code = 402
        /\ ThreeConditions(outcome[c].value)
        /\ "http_retry" \in Range(trace[c])
        /\ Len(pay_log[c]) = 1

\* The spend check_budget reads: the active bucket of (chain, asset).
ActiveSpent(p) == GetSpent(spent, p[1], p[2], GetDayKey(budget, now))
Check(p, a) == CheckBudget(budget, spent, now, p[1], p[2], a)
OverPerRequest(a) ==
    TruthyDec(budget.max_per_request) /\ a > Int_(budget.max_per_request)

\* C9 as claimed: with daily ceiling C and spend S in the active bucket,
\* check_budget succeeds for every amount <= C - S and fails for C - S + 1.
C9_AsClaimed ==
    TruthyDec(budget.max_per_day) =>
        \A p \in Pairs :
            LET C == Int_(budget.max_per_day)
                S == ActiveSpent(p)
            IN  /\ \A a \in CheckAmounts : a <= C - S => Check(p, a) = "ok"
                /\ Check(p, C - S + 1) # "ok"

\* C9, amended: with daily ceiling C and spend S in the active bucket,
\* check_budget succeeds for every amount <= C - S that does not exceed a
\* configured per-request ceiling, and fails for C - S + 1.
C9_DailyClosedBound ==
    TruthyDec(budget.max_per_day) =>
        \A p \in Pairs :
            LET C == Int_(budget.max_per_day)
                S == ActiveSpent(p)
            IN  /\ \A a \in CheckAmounts :
                     (a <= C - S /\ ~OverPerRequest(a)) => Check(p, a) = "ok"
                /\ Check(p, C - S + 1) # "ok"

C9_Witness ==
    /\ TruthyDec(budget.max_per_day)
    /\ last_check.result = "ok"
    /\ \E p \in Pairs :
         /\ last_check.chain = p[1] /\ last_check.asset = p[2]
         /\ ActiveSpent(p) > 0
         /\ last_check.amount = Int_(budget.max_per_day) - ActiveSpent(p)

\* C10: with per-request ceiling C, check_budget never rejects an amount
\* <= C by the per-request rule and always rejects C + 1 by it, and whether
\* that rule rejects is the same for the ledger as it is and for an empty one.
C10_PerRequestClosedBound ==
    TruthyDec(budget.max_per_request) =>
        \A p \in Pairs :
            LET C == Int_(budget.max_per_request)
            IN  /\ \A a \in CheckAmounts : a <= C => Check(p, a) # "per_request"
                /\ Check(p, C + 1) = "per_request"
                /\ \A a \in CheckAmounts :
                     (Check(p, a) = "per_request")
                        <=> (CheckBudget(budget, EmptyDict, now, p[1], p[2], a)
                                = "per_request")

C10_Witness ==
    /\ TruthyDec(budget.max_per_request)
    /\ TruthyDec(budget.max_per_day)
    /\ last_check.result = "per_request"
    /\ last_check.amount = Int_(budget.max_per_request) + 1
    /\ \E p \in Pairs :
         /\ last_check.chain = p[1] /\ last_check.asset = p[2]
         /\ ActiveSpent(p) > Int_(budget.max_per_day)

\* The amount a record_spend step has just added to the ledger.
Recorded == DictTotal(spent') - DictTotal(spent)

\* C11: a spend recorded through record_spend is counted, at the same clock
\* reading, by what check_budget and get_remaining_budget read: the step
\* raises the spend of the recorded pair's active bucket (the previous
\* calendar day's before the reset hour, the current day's from it on) by
\* the recorded amount, and lowers the remaining budget accordingly.
C11_RecordedSpendIsCounted ==
    [][Recorded > 0 =>
         \E p \in Pairs :
            /\ ActiveSpent(p)' = ActiveSpent(p) + Recorded
            /\ TruthyDec(budget.max_per_day) =>
                 GetRemainingBudget(budget, spent', now, p[1], p[2])
                    = SomeInt(Max(0, Int_(budget.max_per_day)
                                       - (ActiveSpent(p) + Recorded)))]_vars

\* payer.pay has returned a proof to call c.
PaySucceeded(c) == "pay_ok" \in Range(trace[c])

\* C12 as claimed: a call cancelled after its payer.pay succeeded has its
\* proof in the invoice cache (when the invoice carries an identifier) and
\* its spend recorded in the ledger (when a budget is configured).
C12_CancelledAfterPayKeepsWrites ==
    \A c \in Calls :
        (outcome[c].kind = "CancelledError" /\ PaySucceeded(c)) =>
            /\ Truthy(pay_log[c][1].invoice_id) =>
                 pay_log[c][1].invoice_id \in DOMAIN by_invoice
            /\ budget.configured =>
                 LedgerTotal >= Int_(pay_log[c][1].amount_units)

\* The amounts all tasks have recorded for a pair on a day.
RECURSIVE SeqTotal(_, _, _)
SeqTotal(seq, p, day) ==
    IF seq = <<>> THEN 0
    ELSE (IF Head(seq).chain = p[1] /\ Head(seq).asset = p[2] /\ Head(seq).day = day
          THEN Head(seq).amount ELSE 0) + SeqTotal(Tail(seq), p, day)
RecordedFor(p, day) ==
    SumOver(Calls, [c \in Calls |-> SeqTotal(trace[c], p, day)])

\* C13: whatever the interleaving of the tasks' record_spend and get_spent
\* calls, the total MemoryBudgetStore holds for a (chain, asset, day) is the
\* sum of all amounts recorded for it: no increment is lost.
C13_NoLostUpdate ==
    \A p \in Pairs, day \in 0..MaxDay :
        GetSpent(spent, p[1], p[2], day) = RecordedFor(p, day)

C13_Witness ==
    \E p \in Pairs, day \in 0..MaxDay :
        /\ \A c \in Calls : SeqTotal(trace[c], p, day) > 0
        /\ last_check.result = "read"
        /\ last_check.chain = p[1] /\ last_check.asset = p[2]
        /\ last_check.amount < GetSpent(spent, p[1], p[2], day)
        /\ now.day = day

\* C14: once an invoice identifier has a stored proof, get_paid returns that
\* same proof to every caller from then on: no step of any call removes it
\* or replaces it by another proof.
C14_StoredProofIsStable ==
    [][\A id \in DOMAIN by_invoice :
          GetPaid(by_invoice', id) = GetPaid(by_invoice, id)]_vars

\* Stream call c receives its initial response in this step.
StreamReceivesInitial(c) == pc[c] = "stream_initial" /\ pc'[c] # "stream_initial"

\* C15: when the invoice of the 402 a stream() call receives already has a
\* proof in the invoice cache, the call retries with that proof: payer.pay
\* is not invoked, the budget is neither checked nor recorded, and the
\* cache and the ledger are unchanged.
C15_StreamReusesCachedProof ==
    [][\A c \in Calls :
         (/\ StreamReceivesInitial(c)
          /\ ThreeConditions(response'[c])
          /\ InCache(Invoice(c)'))
         => /\ pay_log'[c] = pay_log[c]
            /\ "check_budget" \notin Range(trace'[c])
            /\ pc'[c] = "stream_retry"
            /\ inflight'[c].payment
                  = PaymentHeaderValue(GetPaid(by_invoice, Invoice(c)'.invoice_id))
            /\ UNCHANGED shared]_vars

\* C16: a stream() call pays only on a response that meets all three
\* detection conditions; on a 402 that misses one it ends with the status
\* error for that response, having invoked payer.pay never and changed
\* neither the invoice cache nor the ledger.
C16_StreamDetection ==
    [][\A c \in Calls :
         (/\ StreamReceivesInitial(c)
          /\ response'[c].status_code = 402
          /\ ~ThreeConditions(response'[c]))
         => /\ pc'[c] = "error"
            /\ outcome'[c].kind = "HTTPStatusError"
            /\ pay_log'[c] = <<>>
            /\ UNCHANGED shared]_vars

\* Call c stores the proof of its payment in this step.
StoresProof(c) ==
    /\ "set_paid" \notin Range(trace[c])
    /\ "set_paid" \in Range(trace'[c])

\* C17: stream() moves the shared state as request() does from the same
\* state on the same input: on a recognized 402 whose invoice is cached no
\* call invokes payer.pay or changes cache or ledger, on a 402 that is not
\* a recognized payment demand no call invokes payer.pay, and a call that
\* stores its proof stores it in the invoice index and in the
\* idempotency-key index.
C17_StreamMovesStateAsRequest ==
    [][\A c \in Calls :
         /\ ((ReceivesInitial(c) \/ StreamReceivesInitial(c))
                /\ ThreeConditions(response'[c]) /\ InCache(Invoice(c)'))
              => (pay_log'[c] = pay_log[c] /\ UNCHANGED shared)
         /\ ((ReceivesInitial(c) \/ StreamReceivesInitial(c))
                /\ ~ThreeConditions(response'[c]))
              => (pay_log'[c] = pay_log[c] /\ UNCHANGED shared)
         /\ StoresProof(c) =>
               /\ GetPaid(by_invoice', pay_log[c][1].invoice_id) = ProofOf(c)
               /\ \E k \in DOMAIN by_key' : by_key'[k] = ProofOf(c)]_vars

\* Two triples are equal: same method, same URL, and bodies that are the
\* same dict (the same items, in whatever order they were inserted).
EqualTriples(r1, r2) ==
    /\ r1.method = r2.method
    /\ r1.endpoint = r2.endpoint
    /\ Range(r1.body) = Range(r2.body)

\* C18: equal (method, URL, body) triples get equal idempotency keys, the
\* initial attempt of a request() call carries the call's key in the
\* idempotency-key header, and the paid retry carries the same value.
C18_IdempotencyKeyOnEveryAttempt ==
    [][/\ \A r1, r2 \in Requests :
            EqualTriples(r1, r2) =>
                GenerateIdempotencyKey(r1) = GenerateIdempotencyKey(r2)
       /\ \A c \in Calls :
            /\ (pc[c] = "idle" /\ pc'[c] = "await_initial") =>
                 /\ \E r \in Requests : idempotency_key'[c] = GenerateIdempotencyKey(r)
                 /\ Truthy(idempotency_key'[c])
                 /\ inflight'[c].idempotency_key = idempotency_key'[c]
            /\ (pc[c] # "await_retry" /\ pc'[c] = "await_retry") =>
                 /\ Truthy(inflight[c].idempotency_key)
                 /\ inflight'[c].idempotency_key = inflight[c].idempotency_key]_vars

C18_Witness ==
    /\ \E r1, r2 \in Requests : r1 # r2 /\ EqualTriples(r1, r2)
    /\ \E c \in Calls :
         /\ pc[c] = "await_retry"
         /\ "pay_ok" \in Range(trace[c])
         /\ inflight[c].idempotency_key = "9c4e"
         /\ Truthy(inflight[c].payment)

\* Call c takes a step.
Steps(c) == pc'[c] # pc[c]
\* The last request call c invoked payer.pay with.
LastPaid(c) == pay_log[c][Len(pay_log[c])]

\* C19: the ledger changes only in a step of a call whose payer.pay has
\* returned a proof in that call, and by exactly the chain, asset and amount
\* that payment was made for; a step of a call that has no successful
\* payment (non-402, cache hit, budget rejection, payer failure) leaves the
\* ledger as it is.  Stated for request() and stream() calls alike.
C19_LedgerOnlyAfterPayment ==
    [][\A c \in Calls :
         Steps(c) =>
            /\ "pay_ok" \notin Range(trace'[c]) => UNCHANGED spent
            /\ spent' # spent =>
                 /\ "record_spend" \notin Range(trace[c])
                 /\ \E i, j \in 1..Len(trace'[c]) :
                       /\ i < j
                       /\ trace'[c][i] = "pay_ok"
                       /\ trace'[c][j] = "record_spend"
                 /\ spent' = StoreRecordSpend(spent, now, LastPaid(c).chain,
                                              LastPaid(c).asset,
                                              Int_(LastPaid(c).amount_units))]_vars

C19_Witness ==
    /\ budget.configured
    /\ LedgerTotal > 0
    /\ \E c, d \in Calls :
         /\ "record_spend" \in Range(trace[c])
         /\ trace[c][1] = "http_stream"
         /\ outcome[d].kind = "PaymentError"

\* How a check_budget call ends.
CheckResults == {"ok", "per_request", "per_day"}

\* C20: a check_budget call, whether it returns or raises, leaves every
\* bucket of the spend ledger as it was, and with it the remaining budget
\* of every chain and asset.
C20_CheckBudgetHasNoSideEffect ==
    [][(last_check' # last_check /\ last_check'.result \in CheckResults) =>
         /\ spent' = spent
         /\ \A p \in Pairs :
              TruthyDec(budget.max_per_day) =>
                 GetRemainingBudget(budget, spent', now', p[1], p[2])
                    = GetRemainingBudget(budget, spent, now, p[1], p[2])]_vars

C20_Witness ==
    /\ last_check.result = "ok"
    /\ last_check.amount > 0
    /\ TruthyDec(budget.max_per_day)
    /\ \E p \in Pairs :
         /\ last_check.chain = p[1] /\ last_check.asset = p[2]
         /\ ActiveSpent(p) > 0
         /\ GetRemainingBudget(budget, spent, now, p[1], p[2]) = SomeInt(last_check.amount)

\* C21: check_budget with amount 0 succeeds for every configured ceiling in
\* every ledger state, a bucket at or beyond the daily ceiling included.
C21_ZeroAmountAlwaysPasses ==
    \A p \in Pairs : Check(p, 0) = "ok"

\* A get_remaining_budget call returns in this step.
ReadsRemaining ==
    last_check' # last_check /\ last_check'.result \in {"remaining", "no_limit"}

\* C22: get_remaining_budget returns None exactly when no daily ceiling is
\* configured (and the client returns None when it has no budget at all);
\* with a ceiling C and S spent in the current bucket it returns C - S when
\* S <= C and 0 when S > C, so never a negative number.
C22_RemainingIsClampedDifference ==
    [][/\ ReadsRemaining =>
            LET p == <<last_check'.chain, last_check'.asset>>
                S == ActiveSpent(p)
            IN  IF TruthyDec(budget.max_per_day)
                THEN /\ last_check'.result = "remaining"
                     /\ last_check'.amount >= 0
                     /\ last_check'.amount
                          = IF S <= Int_(budget.max_per_day)
                            THEN Int_(budget.max_per_day) - S ELSE 0
                ELSE last_check'.result = "no_limit"
       /\ \A p \in Pairs :
            ClientGetRemainingBudget(NoBudget, spent, now, p[1], p[2]) = NoneInt]_vars

C22_Witness ==
    /\ last_check.result = "remaining"
    /\ last_check.amount = 0
    /\ TruthyDec(budget.max_per_day)
    /\ Int_(budget.max_per_day) > 0
    /\ \E p \in Pairs :
         /\ last_check.chain = p[1] /\ last_check.asset = p[2]
         /\ ActiveSpent(p) > Int_(budget.max_per_day)

\* The store's reset is the step that removes a bucket's key.
ResetsBucket(k) == k \in DOMAIN spent /\ k \notin DOMAIN spent'

\* C23: the spend stored for a (chain, asset, day) never decreases in a
\* step other than a reset of that bucket.
C23_SpendNeverDecreases ==
    [][\A k \in DOMAIN spent :
          ResetsBucket(k) \/ DictGet(spent', k, 0) >= spent[k]]_vars

\* The set_paid calls made on the cache since it was last empty.
SetPaidCalls == trace[1]

\* The proof of the latest set_paid call for the invoice id, NoProof when
\* the id was never stored.
LastStored(invoice_id) ==
    LET at == {i \in 1..Len(SetPaidCalls) : SetPaidCalls[i].id = invoice_id}
    IN  IF at = {} THEN NoProof
        ELSE SetPaidCalls[CHOOSE i \in at : \A j \in at : j <= i].proof

\* The step is a set_paid call.
IsSetPaid == last_check'.op = "set_paid" /\ trace' # trace

\* The step is a get_paid call.
IsGetPaid == last_check'.op = "get_paid"

\* C24: after set_paid(id, proof), get_paid(id) returns that proof, for every
\* id including the empty string; get_paid of an id that was never stored
\* returns none; and set_paid for one id leaves get_paid of every other id as
\* it was.
C24_CacheRoundTrip ==
    [][/\ IsSetPaid =>
            /\ GetPaid(by_invoice', last_check'.id) = last_check'.proof
            /\ \A other \in CacheIds \ {last_check'.id} :
                  GetPaid(by_invoice', other) = GetPaid(by_invoice, other)
       /\ IsGetPaid => last_check'.proof = LastStored(last_check'.id)]_vars

\* get_paid("") returned the proof stored under the empty id while another
\* id was stored after it.
C24_Witness ==
    /\ last_check.op = "get_paid"
    /\ last_check.id = ""
    /\ last_check.proof # NoProof
    /\ Len(SetPaidCalls) >= 2
    /\ SetPaidCalls[1].id = ""
    /\ SetPaidCalls[2].id # ""

\* The step is a get_by_idempotency_key call.
IsGetByKey == last_check'.op = "get_by_idempotency_key"

\* C25: after set_paid(id, proof, key) with a non-empty key,
\* get_by_idempotency_key(key) returns that proof; set_paid without a key adds
\* no key-index entry; set_paid with the empty key stores the proof under the
\* invoice id and nothing under the key, so get_by_idempotency_key("") returns
\* none in every reachable state.
C25_KeyIndexRoundTrip ==
    [][/\ IsSetPaid =>
            /\ Truthy(last_check'.key) =>
                  GetByIdempotencyKey(by_key', last_check'.key) = last_check'.proof
            /\ last_check'.key = None => by_key' = by_key
            /\ last_check'.key = "" =>
                  /\ GetPaid(by_invoice', last_check'.id) = last_check'.proof
                  /\ by_key' = by_key
       /\ (IsGetByKey /\ last_check'.key = "") => last_check'.proof = NoProof
       /\ GetByIdempotencyKey(by_key', "") = NoProof]_vars

\* get_by_idempotency_key("") was called after a set_paid with the empty key
\* whose proof get_paid returns, and after a set_paid with a real key.
C25_Witness ==
    /\ last_check.op = "get_by_idempotency_key"
    /\ last_check.key = ""
    /\ \E i \in 1..Len(SetPaidCalls) :
          /\ SetPaidCalls[i].key = ""
          /\ GetPaid(by_invoice, SetPaidCalls[i].id) = SetPaidCalls[i].proof
    /\ \E i \in 1..Len(SetPaidCalls) :
          /\ Truthy(SetPaidCalls[i].key)
          /\ GetByIdempotencyKey(by_key, SetPaidCalls[i].key) = SetPaidCalls[i].proof

\* The distinct invoice ids of the set_paid calls made since the cache was
\* last empty.
StoredIds == {SetPaidCalls[i].id : i \in 1..Len(SetPaidCalls)}

\* C26: an invoice id maps to at most one proof: a second set_paid for an id
\* already stored overwrites it (get_paid returns the last written proof) and
\* adds no entry, and len(cache) is the number of distinct ids stored.
C26_OneProofPerInvoice ==
    [][/\ (IsSetPaid /\ last_check'.id \in DOMAIN by_invoice) =>
            /\ GetPaid(by_invoice', last_check'.id) = last_check'.proof
            /\ CacheLen(by_invoice') = CacheLen(by_invoice)
       /\ CacheLen(by_invoice') = Cardinality(StoredIds')]_vars

\* Two different proofs were stored for one id and a third call stored
\* another id: the cache holds two entries, the first id with its second proof.
C26_Witness ==
    /\ Len(SetPaidCalls) = 3
    /\ SetPaidCalls[1].id = SetPaidCalls[2].id
    /\ SetPaidCalls[1].proof # SetPaidCalls[2].proof
    /\ SetPaidCalls[3].id # SetPaidCalls[1].id
    /\ GetPaid(by_invoice, SetPaidCalls[1].id) = SetPaidCalls[2].proof
    /\ CacheLen(by_invoice) = 2

\* The position of a request() call, ordered as the code reaches them.
PcRank(state) ==
    CASE state = "idle" -> 0
      [] state = "await_initial" -> 1
      [] state = "await_pay" -> 2
      [] state = "await_retry" -> 3
      [] OTHER -> 4

\* Some call other than c is suspended in a round-trip or in payer.pay.
OtherSuspended(c) == \E d \in Calls \ {c} : pc[d] \in SuspensionPoints

\* C27: no call blocks the client: while one request() call is suspended in a
\* round-trip or in payer.pay, every other unfinished call has a step it can
\* take, each step of a call moves that call strictly forward and leaves every
\* other call where it is, so the other call runs to completion; nothing is
\* held across a suspension and an unfinished call is never stuck.
C27_NoCallBlocksTheClient ==
    /\ [](\A c \in Calls : (pc[c] \notin Terminal) => ENABLED (Next /\ Steps(c)))
    /\ [][\A c \in Calls :
            Steps(c) => /\ PcRank(pc'[c]) > PcRank(pc[c])
                        /\ \A d \in Calls \ {c} : pc'[d] = pc[d]]_vars

\* Call 2 has paid, retried and returned while call 1 is still suspended in
\* payer.pay.
C27_Witness ==
    /\ pc[1] = "await_pay"
    /\ pc[2] = "done"
    /\ "http_retry" \in Range(trace[2])

\* What the budget operations observe for pair p at the current clock:
\* get_spent for every day, check_budget for every amount and
\* get_remaining_budget.
Observed(p) ==
    << [d \in 0..MaxDay |-> GetSpent(spent, p[1], p[2], d)],
       [a \in 0..MaxAmount |-> Check(p, a)],
       GetRemainingBudget(budget, spent, now, p[1], p[2]) >>

\* C28: spend is tracked independently per (chain, asset) pair: a
\* record_spend or reset, which acts on one pair, changes what get_spent,
\* check_budget and get_remaining_budget observe for at most that pair, never
\* for two different pairs at once.
C28_PairsAreIndependent ==
    [][spent' # spent =>
          \A p, q \in AnyPairs :
              (p # q /\ Observed(p)' # Observed(p)) => Observed(q)' = Observed(q)]_vars

\* Call c sends its paid retry in this step.
SendsRetry(c) == pc[c] # "await_retry" /\ pc'[c] = "await_retry"

\* C29: on the paid retry the payment-proof header is the proof's
\* transaction hash for the hash kinds (cardano-txhash, evm-txhash) and the
\* proof's signed payload for the signed-payload kind (cardano-signed-cbor),
\* empty when the proof lacks that field; the invoice-id header is the
\* invoice's id, empty when the invoice has none.
C29_ProofHeaderFollowsKind ==
    [][\A c \in Calls :
          SendsRetry(c) =>
              LET proof == last_check'.proof
                  sent == inflight'[c]
              IN  /\ proof.kind \in {"cardano-txhash", "evm-txhash"} =>
                        sent.payment = OrEmpty(proof.tx_hash)
                  /\ proof.kind = "cardano-signed-cbor" =>
                        sent.payment = OrEmpty(proof.cbor_hex)
                  /\ sent.invoice_id = OrEmpty(last_check'.id)]_vars

\* A retry sent the signed payload of a signed-payload proof that also has a
\* transaction hash, for an invoice with an id.
C29_Witness ==
    /\ last_check.op = "retry_with_payment"
    /\ last_check.proof = PaymentProof("cardano-signed-cbor", "tx1", "84a4")
    /\ last_check.id = "inv1"
    /\ \E c \in Calls :
          /\ pc[c] = "await_retry"
          /\ inflight[c].payment = "84a4"
          /\ inflight[c].invoice_id = "inv1"

\* The canonical id of each wire name of the table, as colon-separated
\* segments.
Canonical(name) ==
    CASE name = "cardano-mainnet" -> <<"cardano", "mainnet">>
      [] name = "cardano-preprod" -> <<"cardano", "preprod">>
      [] name = "base-mainnet" -> <<"eip155", "8453">>
      [] name = "base-sepolia" -> <<"eip155", "84532">>

\* The wire names of the table.
TableNames == {"cardano-mainnet", "cardano-preprod", "base-mainnet", "base-sepolia"}

\* The chain the server's invoice names in the response call c receives.
WireChain(c) == DictGet(response'[c].data, "chain", "")

\* Call c receives a recognized payment demand in this step.
ReceivesInvoice(c) ==
    /\ ReceivesInitial(c)
    /\ response'[c].status_code = PaymentRequired
    /\ response'[c].data # NoData

\* C30: parse_flux_invoice maps every wire chain name of the table to its
\* canonical id and returns every other name unchanged, and an invoice is
\* never rejected for its chain name: whatever the name, the call goes on to
\* the cache, the budget check and payer.pay with the parsed chain.
C30_ChainNamesMapOrPassThrough ==
    [][\A c \in Calls :
          ReceivesInvoice(c) =>
              LET name == WireChain(c)
                  parsed == ParseFluxInvoice(response'[c].data).chain
              IN  /\ name \in TableNames => parsed = Canonical(name)
                  /\ name \notin TableNames => parsed = Segments(name)
                  /\ \/ pc'[c] = "await_retry"
                     \/ outcome'[c].kind = "BudgetExceededError"
                     \/ /\ pc'[c] = "await_pay"
                        /\ payment_request'[c].chain = parsed
                        /\ LastPaid(c)'.chain = parsed]_vars

\* One call is paying an invoice on a chain the table lacks, the other an
\* invoice whose table name was mapped.
C30_Witness ==
    /\ pc[1] = "await_pay"
    /\ DictGet(response[1].data, "chain", "") = "unknown:chain"
    /\ payment_request[1].chain = <<"unknown", "chain">>
    /\ pc[2] = "await_pay"
    /\ DictGet(response[2].data, "chain", "") = "base-mainnet"
    /\ payment_request[2].chain = <<"eip155", "8453">>

\* The invoice call c is handling carries no identifier (absent or empty).
NoInvoiceId(c) == ~Truthy(payment_request[c].invoice_id)

\* C31: when the recognized payment demand carries no invoice identifier
\* (absent or empty), request() still checks the budget, pays, records the
\* spend and retries, and writes nothing to the cache: no step of the call
\* changes either cache index.
C31_NoIdentifierNoCacheWrite ==
    [][\A c \in Calls :
          /\ (ReceivesInvoice(c) /\ ~Truthy(ParseFluxInvoice(response'[c].data).invoice_id)) =>
                /\ by_invoice' = by_invoice /\ by_key' = by_key
                /\ "get_paid" \notin Range(trace'[c])
                /\ budget.configured => "check_budget" \in Range(trace'[c])
                /\ \/ outcome'[c].kind = "BudgetExceededError"
                   \/ pc'[c] = "await_pay" /\ "pay" \in Range(trace'[c])
          /\ (pc[c] = "await_pay" /\ NoInvoiceId(c) /\ pc'[c] = "await_retry") =>
                /\ by_invoice' = by_invoice /\ by_key' = by_key
                /\ "set_paid" \notin Range(trace'[c])
                /\ budget.configured =>
                      /\ "record_spend" \in Range(trace'[c])
                      /\ Recorded = Int_(payment_request[c].amount_units)
                /\ "http_retry" \in Range(trace'[c])
                /\ inflight'[c].payment = TxHashes[c]]_vars

\* Two calls have paid for invoices without identifier, one with an empty
\* and one with an absent invoiceId, recorded their spend and retried, and
\* the cache is empty.
C31_Witness ==
    /\ pc[1] = "done" /\ pc[2] = "done"
    /\ pay_log[1] # <<>> /\ pay_log[1][1].invoice_id = ""
    /\ pay_log[2] # <<>> /\ pay_log[2][1].invoice_id = None
    /\ "http_retry" \in Range(trace[1]) /\ "http_retry" \in Range(trace[2])
    /\ budget.configured
    /\ DictTotal(spent) = 2
    /\ by_invoice = EmptyDict /\ by_key = EmptyDict

WireSplits(data) == DictGet(data, "splits", <<>>)

\* C33: parse_flux_invoice yields no SplitConfig when the wire splits array
\* is absent or empty, and otherwise a SplitConfig with one output per wire
\* entry, in the same order, and with mode taken from splitMode (additional
\* when absent); every SplitConfig it yields has a non-empty outputs list.
\* Stated on the request each call parses and hands to payer.pay.
C33_SplitsParsedEntryByEntry ==
    [][\A c \in Calls :
          ReceivesInvoice(c) =>
              LET data == response'[c].data
                  wire == WireSplits(data)
                  splits == ParseFluxInvoice(data).splits
              IN  /\ wire = <<>> => splits = NoSplits
                  /\ wire # <<>> =>
                        /\ splits # NoSplits
                        /\ splits[1].mode = DictGet(data, "splitMode", "additional")
                        /\ Len(splits[1].outputs) = Len(wire)
                        /\ \A i \in 1..Len(wire) :
                              /\ splits[1].outputs[i].to = wire[i].to
                              /\ splits[1].outputs[i].amount_units = Str(wire[i].amount)
                  /\ splits # NoSplits => splits[1].outputs # <<>>
                  /\ pc'[c] = "await_pay" => LastPaid(c)'.splits = splits]_vars

\* payer.pay was invoked with a two-output SplitConfig in wire order whose
\* mode defaulted to additional, and by the other call with no SplitConfig
\* for an empty wire array.
C33_Witness ==
    /\ pc[1] = "await_pay"
    /\ "splitMode" \notin DOMAIN response[1].data
    /\ payment_request[1].splits # NoSplits
    /\ payment_request[1].splits[1].mode = "additional"
    /\ Len(payment_request[1].splits[1].outputs) = 2
    /\ payment_request[1].splits[1].outputs[1].to = "addr_treasury"
    /\ payment_request[1].splits[1].outputs[2].to = "addr_partner"
    /\ pc[2] = "await_pay"
    /\ "splits" \in DOMAIN response[2].data
    /\ payment_request[2].splits = NoSplits

\* The wire expiry of the invoice call c receives.
WireExpiry(c) == DictGet(response'[c].data, "expiresAt", JsonNull)

\* C34: the timeout derivation never raises: for every value of the wire
\* expiry field (missing, a future instant, a past instant, an unparsable
\* string, a value that is not a string) the call does not end in an
\* exception of the derivation, the timeout is none for a missing or
\* unparsable expiry and otherwise the non-negative number of seconds until
\* expiry, and the payment flow goes on to the cache, the budget check and
\* payer.pay.
C34_TimeoutNeverRaises ==
    [][\A c \in Calls :
          ReceivesInvoice(c) =>
              /\ outcome'[c].kind # "AttributeError"
              /\ \/ pc'[c] \in {"await_pay", "await_retry"}
                 \/ outcome'[c].kind = "BudgetExceededError"
              /\ LET timeout == CalculateTimeout(WireExpiry(c), now)
                 IN  timeout = NoneInt \/ timeout[1] >= 0]_vars

\* C35: with a daily ceiling C configured, whatever the interleaving of
\* concurrent request() calls on one client, the spend recorded in one
\* (chain, asset, bucket) never exceeds C.  Stated for a client whose reset
\* hour is 0, where the bucket checked and the bucket recorded are the same.
C35_ConcurrentSpendWithinCeiling ==
    (budget.configured /\ TruthyDec(budget.max_per_day) /\ budget.daily_reset_hour = 0) =>
        \A k \in DOMAIN spent : spent[k] <= Int_(budget.max_per_day)

\* The invoice id the proof under the idempotency key was stored with: the
\* id of the latest set_paid call made with that key.
StoredWith(key) ==
    LET at == {i \in 1..Len(SetPaidCalls) : SetPaidCalls[i].key = key}
    IN  SetPaidCalls[CHOOSE i \in at : \A j \in at : j <= i].id

\* C36: the two cache indexes stay consistent: in every reachable cache
\* state the proof get_by_idempotency_key finds under a key equals the proof
\* get_paid returns for the invoice id it was stored with.
C36_IndexesStayConsistent ==
    \A key \in DOMAIN by_key :
        GetByIdempotencyKey(by_key, key) = GetPaid(by_invoice, StoredWith(key))

\* The retried request of call c fails in this step.
RetryFails(c) == pc[c] = "await_retry" /\ pc'[c] = "error"

\* The call has paid for an invoice that carries an identifier.
PaidWithId(c) == PaySucceeded(c) /\ Truthy(pay_log[c][1].invoice_id)

\* C37: when payment succeeded and the retried request then fails, the call
\* ends in error with the proof still in the cache and the spend still in
\* the ledger (the failure changes neither); a later request() that receives
\* the same invoice identifier retries with the cached proof and neither
\* invokes payer.pay nor records spend.
C37_FailedRetryKeepsProofAndSpend ==
    [][\A c \in Calls :
          /\ RetryFails(c) =>
                /\ outcome'[c].kind = "HTTPStatusError"
                /\ by_invoice' = by_invoice /\ by_key' = by_key /\ spent' = spent
                /\ PaidWithId(c) => GetPaid(by_invoice', pay_log[c][1].invoice_id) # NoProof
                /\ (PaySucceeded(c) /\ budget.configured) =>
                      /\ "record_spend" \in Range(trace[c])
                      /\ DictTotal(spent') >= Int_(pay_log[c][1].amount_units)
          /\ \A d \in Calls \ {c} :
                (/\ pc[d] = "error" /\ PaidWithId(d)
                 /\ ReceivesInvoice(c)
                 /\ ParseFluxInvoice(response'[c].data).invoice_id = pay_log[d][1].invoice_id) =>
                    /\ pc'[c] = "await_retry"
                    /\ inflight'[c].payment =
                          GetPaid(by_invoice, pay_log[d][1].invoice_id).tx_hash
                    /\ pay_log' = pay_log
                    /\ UNCHANGED shared]_vars

\* Call 1 paid and its retry failed; call 2 then received the same invoice,
\* retried with call 1's proof without paying, and returned; the ledger
\* holds the one payment.
C37_Witness ==
    /\ pc[1] = "error" /\ outcome[1].kind = "HTTPStatusError"
    /\ PaidWithId(1) /\ "http_retry" \in Range(trace[1])
    /\ pc[2] = "done" /\ pay_log[2] = <<>>
    /\ "http_retry" \in Range(trace[2])
    /\ response[2].status_code = 200
    /\ budget.configured
    /\ DictTotal(spent) = Int_(pay_log[1][1].amount_units)
    /\ GetPaid(by_invoice, pay_log[1][1].invoice_id) = ProofOf(1)

\* The main amount of the invoice in a response, as the integer it states.
MainAmount(resp) == resp.data["amount"]

\* C38: within a call the amount checked against the budget, the amount of
\* the PaymentRequest handed to payer.pay and the amount recorded in the
\* ledger are one value, the integer value of the invoice's main amount,
\* whatever split configuration (inclusive or additional) the invoice
\* carries: the call goes on to pay exactly when check_budget accepts the
\* main amount, payer.pay receives the main amount, and the ledger grows by
\* the main amount.
C38_OneAmountRegardlessOfSplits ==
    [][\A c \in Calls :
          /\ ReceivesInvoice(c) =>
                LET main == MainAmount(response'[c])
                    request == ParseFluxInvoice(response'[c].data)
                    accepted == CheckBudget(budget, spent, now, request.chain,
                                            request.asset, main) = "ok"
                IN  /\ Int_(request.amount_units) = main
                    /\ pc'[c] = "await_pay" =>
                          /\ budget.configured => accepted
                          /\ Int_(LastPaid(c)'.amount_units) = main
                    /\ outcome'[c].kind = "BudgetExceededError" => ~accepted
          /\ (pc[c] = "await_pay" /\ pc'[c] = "await_retry" /\ budget.configured) =>
                /\ Recorded = MainAmount(response[c])
                /\ Recorded = Int_(LastPaid(c).amount_units)]_vars

\* A call paid and recorded the main amount 1 of an invoice whose two splits
\* of 1 and MaxAmount units come on top (mode additional), under a daily
\* ceiling of MaxAmount.
C38_Witness ==
    /\ pc[1] = "await_retry" /\ PaySucceeded(1)
    /\ budget.configured /\ budget.max_per_day = Str(MaxAmount)
    /\ pay_log[1][1].amount_units = Str(1)
    /\ pay_log[1][1].splits # NoSplits
    /\ pay_log[1][1].splits[1].mode = "additional"
    /\ Len(pay_log[1][1].splits[1].outputs) = 2
    /\ DictTotal(spent) = 1
    /\ pc[2] = "idle"

\* C39: every request() call terminates: provided each transport call and
\* the payer call eventually returns or fails, a call that has started
\* eventually reaches DONE (a response returned) or ERROR (an exception
\* raised), and its state graph has no cycle: every step takes the call to a
\* position it has not been in before.
C39_EveryCallTerminates ==
    /\ \A c \in Calls : (pc[c] # "idle") ~> (pc[c] \in Terminal)
    /\ [][\A c \in Calls : PcRank(pc'[c]) >= PcRank(pc[c])]_vars
    /\ [][\A c \in Calls : (pc[c] \in Terminal) => pc'[c] = pc[c]]_vars

\* Both calls went through every position (first round-trip, payer.pay,
\* retry) and ended, one in DONE and one in ERROR.
C39_Witness ==
    /\ pc[1] = "done" /\ pc[2] = "error"
    /\ "pay_ok" \in Range(trace[1]) /\ "http_retry" \in Range(trace[1])
    /\ "pay_ok" \in Range(trace[2]) /\ "http_retry" \in Range(trace[2])

====
